---- MODULE Spec2Model ----
(***************************************************************************)
(* The in-memory ride-dispatch engine of src/src/utils/socket.js: the      *)
(* connectedClients / driverLocations / activeRides /                      *)
(* driverMovementHistory maps, the socket event handlers that mutate them  *)
(* and the setTimeout callbacks those handlers schedule.                   *)
(*                                                                         *)
(* Node runs one handler (or timer callback) at a time; none of the        *)
(* handlers modelled here awaits before its last state mutation, so one    *)
(* inbound event is one atomic action.  When the source registers two      *)
(* handlers for the same event name on a socket (driver_arrived,           *)
(* cancel_ride) socket.io runs both, in registration order, for every      *)
(* such event: the action is their composition.                            *)
(*                                                                         *)
(* Conventions.  Distances are integers in metres and positions are        *)
(* integer points on a line (calculateDistance is the stand-in metric      *)
(* |a - b|).  `out` is the bag of messages emitted by the last handler:    *)
(* io.to(`user:X`).emit goes to room X, socket.emit goes to the calling    *)
(* socket, and a call of createAndSendNotification is recorded as the      *)
(* message "notify" addressed to its recipient.  A JS `undefined` id is    *)
(* NoId, an undefined number is NoNum.  Write-only display fields          *)
(* (ride.driver, requestTime, lastActive, rideType, ...) are left out.     *)
(***************************************************************************)
EXTENDS Bags, FiniteSets, Integers, Sequences, TLC

\* ------------------------------------------------------------------ bounds
Riders == {"u1"}
Drivers == {"d1", "d2"}
Users == Riders \cup Drivers

\* connections in one run (socket ids are never reused)
MaxSockets == 3
\* ride_request events that create a ride in one run
MaxRides == 1
\* inbound socket events handled in one run
MaxEvents == 3
\* the instants Date.now() takes in one run: 0..MaxClock
MaxClock == 1

\* ------------------------------------------------------- program constants
FARE_PER_KM == 20
HISTORY_CAP == 100
SEGMENT_MIN == 10

\* the minimum fare of the fare estimate (ride.controller.js) and README
MINIMUM_FARE == 50

NoId == "undefined"
NoNum == 0 - 1
NoLoc == NoNum
NoRide == <<-1, NoId>>

ActiveStatuses == {"driverAccepted", "driverArrived", "inProgress"}
RiderActiveStatuses == {"searching", "driverAssigned"} \cup ActiveStatuses

\* ------------------------------------------------------------------ inputs
Sockets == 1..MaxSockets
\* the participant behind connection s: d1, d2, u1, then d1's next connection...
Participants == <<"d1", "d2", "u1">>
SocketOwner(s) == Participants[((s - 1) % Len(Participants)) + 1]
Instants == 0..MaxClock
RideIds == Instants \X Riders
\* pickup/dropoff pairs of a ride_request (NoLoc: the field is missing)
TripInputs == {<<0, 5980>>, <<NoLoc, 5980>>}
\* optional estimatedDistance / estimatedPrice of a ride_request
EstDistanceInputs == {NoNum}
EstPriceInputs == {NoNum}
\* the locations of the location events: points 10 m and 30 m from the origin
LocationInputs == {0, 10, 30}
\* optional location of a driver_status_update
StatusLocInputs == {NoLoc}
\* optional reason of a cancel_ride ("": the payload omits it)
ReasonInputs == {""}
\* optional actualPrice of a complete_ride
ActualPriceInputs == {NoNum}

\* the program's state: the clock, the sockets (socket.userId, joined rooms),
\* the four maps of socket.js (rideOrder: the insertion order of activeRides),
\* the pending setTimeout callbacks and the messages of the last handler
VARIABLES now, sockOpen, sockUser, sockRooms,
          connectedClients, driverLocations, driverMovementHistory,
          activeRides, rideOrder, timers, out
\* bookkeeping: the number of rides created and of inbound events handled,
\* per ride the record of its accept race, and the status a ride had when
\* activeRides.delete removed it
VARIABLES rideCount, events, race, evicted
\* the notification bridge (createAndSendNotification): the calls whose
\* Notification.createNotification has not settled yet, and the rows of the
\* notification collection
VARIABLES pendingNotes, notifications
\* the REST driver endpoints of message.controller.js: the Ride document in
\* the database and, per driver, the request in flight and its response
VARIABLES rideDoc, requests

sockVars == <<sockOpen, sockUser, sockRooms>>
bridgeVars == <<pendingNotes, notifications>>
restVars == <<rideDoc, requests>>

\* the state of socket.js
socketVars == <<now, sockOpen, sockUser, sockRooms, connectedClients,
                driverLocations, driverMovementHistory, activeRides, rideOrder,
                timers, out, rideCount, race, evicted>>

vars == <<now, sockOpen, sockUser, sockRooms, connectedClients,
          driverLocations, driverMovementHistory, activeRides, rideOrder,
          timers, out, rideCount, events, race, evicted,
          pendingNotes, notifications, rideDoc, requests>>

\* --------------------------------------------------------------- helpers
Abs(x) == IF x < 0 THEN -x ELSE x

\* a JS number used as a condition: undefined and 0 are falsy
Truthy(n) == n # NoNum /\ n # 0

calculateDistance(a, b) == Abs(a - b)

\* Math.round(km * FARE_PER_KM) with the distance given in metres
calculateFare(distance) == (distance * FARE_PER_KM + 500) \div 1000

Msg(ev, room, sock, ride, tag) ==
  [ev |-> ev, room |-> room, sock |-> sock, ride |-> ride, tag |-> tag]
ToRoom(ev, u, ride, tag) == Msg(ev, u, 0, ride, tag)
ToSock(ev, s, ride, tag) == Msg(ev, NoId, s, ride, tag)
Notify(u, ride, title) == Msg("notify", u, 0, ride, title)

One(m) == SetToBag({m})
Sent(m) == BagIn(m, out)
Count(m) == CopiesIn(m, out)

MapSet(f, k, v) == [x \in DOMAIN f \cup {k} |-> IF x = k THEN v ELSE f[x]]
MapDel(f, k) == [x \in DOMAIN f \ {k} |-> f[x]]

RECURSIVE SeqDel(_, _)
SeqDel(q, k) ==
  IF q = <<>> THEN <<>>
  ELSE IF Head(q) = k THEN SeqDel(Tail(q), k)
  ELSE <<Head(q)>> \o SeqDel(Tail(q), k)

\* Map.set keeps the position of a key that is already present
OrderSet(q, k) == IF \E i \in 1..Len(q) : q[i] = k THEN q ELSE Append(q, k)

\* Array.from(activeRides.values()).find(ride => ride.driverId === d && active)
DriverActiveRides(rides, d) ==
  {r \in DOMAIN rides : rides[r].driverId = d /\ rides[r].status \in ActiveStatuses}

FirstIn(q, S) ==
  IF \E i \in 1..Len(q) : q[i] \in S
  THEN q[CHOOSE i \in 1..Len(q) : q[i] \in S /\ \A j \in 1..(i - 1) : q[j] \notin S]
  ELSE NoRide

findDriverActiveRide(rides, order, d) == FirstIn(order, DriverActiveRides(rides, d))

findRiderActiveRide(rides, order, u) ==
  FirstIn(order, {r \in DOMAIN rides : rides[r].userId = u
                                        /\ rides[r].status \in RiderActiveStatuses})

\* a ride object whose route starts with a point already
NewRide_withPickup(userId, distance, price) ==
  [userId |-> userId, driverId |-> NoId, status |-> "searching",
   potentialDrivers |-> {}, estimatedDistance |-> distance,
   estimatedPrice |-> price, acceptedTime |-> NoNum, startTime |-> NoNum,
   endTime |-> NoNum, actualPrice |-> NoNum, cancelledBy |-> NoId,
   cancellationReason |-> "", route |-> <<0>>, actualDistance |-> NoNum,
   updatedFare |-> NoNum, finalFare |-> NoNum]

NewRide(userId, distance, price) ==
  [userId |-> userId, driverId |-> NoId, status |-> "searching",
   potentialDrivers |-> {}, estimatedDistance |-> distance,
   estimatedPrice |-> price, acceptedTime |-> NoNum, startTime |-> NoNum,
   endTime |-> NoNum, actualPrice |-> NoNum, cancelledBy |-> NoId,
   cancellationReason |-> "", route |-> <<>>, actualDistance |-> NoNum,
   updatedFare |-> NoNum, finalFare |-> NoNum]

\* the accept race of a ride: the drivers whose driver_accept_ride succeeded,
\* the candidates whose driver_accept_ride was rejected, and the drivers that
\* were sent ride_taken
NoRace == [winners |-> {}, rejected |-> {}, taken |-> {}]

\* no call of the notification bridge is awaiting the store
BridgeIdle == pendingNotes = EmptyBag /\ notifications = EmptyBag

\* a Ride document (status, driver) and a request slot of a driver: the
\* endpoint, where it stands (idle, awaiting findById, awaiting save), the
\* fields it is about to save and the last response code
NoDoc == [status |-> "none", driver |-> NoId]
NoRequest == [op |-> "none", pc |-> "idle", set |-> NoDoc, res |-> 0]

\* no REST request has been made and the database holds no ride
RestIdle == rideDoc = NoDoc /\ requests = [d \in Drivers |-> NoRequest]

\* ------------------------------------------------------------------- Init
\* io.on('connection') only registers the handlers of a socket, so the state
\* after start-up with every connection of the run established is the empty
\* maps with every socket open and none authenticated.  A run starts there,
\* or after drivers have already signed in on their first connection: each
\* driver has sent nothing ("absent"), has sent authenticate ("offline"), or
\* authenticate and then driver_status_update{isOnline: true} ("online").
SignedIn == {"absent", "offline", "online"}

FirstSocket(u) == CHOOSE s \in Sockets : SocketOwner(s) = u
                                         /\ \A x \in 1..(s - 1) : SocketOwner(x) # u

InitClient(d, mode) ==
  [socketId |-> FirstSocket(d), userType |-> "driver", connected |-> TRUE,
   isOnline |-> (mode = "online"), location |-> NoLoc]

Init ==
  /\ now = 0
  /\ sockOpen = Sockets
  /\ \E mode \in [Drivers -> SignedIn] :
       LET in == {d \in Drivers : mode[d] # "absent"}
       IN /\ connectedClients = [d \in in |-> InitClient(d, mode[d])]
          /\ sockUser = [s \in Sockets |->
                          IF \E d \in in : s = FirstSocket(d)
                          THEN SocketOwner(s) ELSE NoId]
          /\ sockRooms = [s \in Sockets |->
                           IF \E d \in in : s = FirstSocket(d)
                           THEN {SocketOwner(s)} ELSE {}]
  /\ driverLocations = <<>>
  /\ driverMovementHistory = <<>>
  /\ activeRides = <<>>
  /\ rideOrder = <<>>
  /\ timers = {}
  /\ out = EmptyBag
  /\ rideCount = 0
  /\ events = 0
  /\ race = [r \in RideIds |-> NoRace]
  /\ evicted = [r \in RideIds |-> "none"]
  /\ BridgeIdle
  /\ RestIdle

\* -------------------------------------------------------------- environment
\* Date.now() advances
Tick ==
  /\ now < MaxClock
  /\ now' = now + 1
  /\ out' = EmptyBag
  /\ UNCHANGED <<rideCount, sockVars, connectedClients, driverLocations,
                 driverMovementHistory, activeRides, rideOrder, timers, race,
                 evicted>>

\* ------------------------------------------------------ ConnectionRegistry
UserTypeOf(u) == IF u \in Drivers THEN "driver" ELSE "user"

NoClient(userType) ==
  [socketId |-> 0, userType |-> userType, connected |-> FALSE,
   isOnline |-> FALSE, location |-> NoLoc]

OnlineTag(b) == IF b THEN "online" ELSE "offline"

\* messages authenticate sends to a driver: status, and the active ride if any
AuthDriverMsgs(s, userId, client) ==
  LET r == findDriverActiveRide(activeRides, rideOrder, userId)
  IN One(ToSock("driver_status_updated", s, NoRide, OnlineTag(client.isOnline)))
     (+) (IF r # NoRide THEN One(ToSock("active_ride_status", s, r, ""))
          ELSE EmptyBag)

\* messages authenticate sends to a rider: the active ride, the driver's
\* latest location and the driver's movement history
AuthRiderMsgs(s, userId) ==
  LET r == findRiderActiveRide(activeRides, rideOrder, userId)
      d == IF r # NoRide THEN activeRides[r].driverId ELSE NoId
      hasLoc == d # NoId /\ d \in DOMAIN driverLocations
      hasHist == /\ hasLoc
                 /\ d \in DOMAIN driverMovementHistory
                 /\ Len(driverMovementHistory[d]) > 0
  IN (IF r # NoRide THEN One(ToSock("active_ride_status", s, r, ""))
      ELSE EmptyBag)
     (+) (IF hasLoc THEN One(ToSock("driver_location_update", s, r, d))
          ELSE EmptyBag)
     (+) (IF hasHist THEN One(ToSock("driver_movement_history", s, r, d))
          ELSE EmptyBag)

\* an entry built from scratch on every authenticate
registered_fresh(existing, s, userType) ==
  [socketId |-> s, userType |-> userType, connected |-> TRUE,
   isOnline |-> userType # "driver", location |-> NoLoc]

\* the entry authenticate stores: { ...existingClient, socketId, userType,
\* connected: true, isOnline: driver ? (existing.isOnline || false) : true }
registered(existing, s, userType) ==
  [existing EXCEPT
     !.socketId = s, !.userType = userType, !.connected = TRUE,
     !.isOnline = IF userType = "driver" THEN existing.isOnline ELSE TRUE]

\* socket.on('authenticate')
Authenticate(s, userId, userType) ==
  /\ s \in sockOpen
  /\ userId # NoId
  /\ LET existing == IF userId \in DOMAIN connectedClients
                     THEN connectedClients[userId] ELSE NoClient(userType)
         client == registered(existing, s, userType)
     IN /\ connectedClients' = MapSet(connectedClients, userId, client)
        /\ out' = One(ToSock("authenticated", s, NoRide, userId))
                  (+) (IF userType = "driver"
                       THEN AuthDriverMsgs(s, userId, client) ELSE EmptyBag)
                  (+) (IF userType = "user"
                       THEN AuthRiderMsgs(s, userId) ELSE EmptyBag)
  /\ sockUser' = [sockUser EXCEPT ![s] = userId]
  /\ sockRooms' = [sockRooms EXCEPT ![s] = @ \cup {userId}]
  /\ UNCHANGED <<now, rideCount, sockOpen, driverLocations,
                 driverMovementHistory, activeRides, rideOrder, timers, race,
                 evicted>>

\* the driver_offline message of driver_status_update: sent when the flag
\* goes from online to offline and the driver has an active ride
StatusOfflineMsgs(driverId, wasOnline, isOnline) ==
  LET r == findDriverActiveRide(activeRides, rideOrder, driverId)
  IN IF wasOnline /\ ~isOnline /\ r # NoRide
     THEN One(ToRoom("driver_offline", activeRides[r].userId, r, driverId))
     ELSE EmptyBag

\* socket.on('driver_status_update')
DriverStatusUpdate(s, driverId, isOnline, location) ==
  /\ s \in sockOpen
  /\ driverId # NoId
  /\ LET had == driverId \in DOMAIN connectedClients
         client == IF had THEN connectedClients[driverId] ELSE NoClient("driver")
         wasOnline == client.isOnline
     IN /\ connectedClients' =
             MapSet(connectedClients, driverId,
                    [client EXCEPT !.isOnline = isOnline, !.location = location,
                                   !.socketId = s, !.connected = TRUE])
        /\ out' = StatusOfflineMsgs(driverId, wasOnline, isOnline)
                  (+) One(ToSock("driver_status_updated", s, NoRide,
                                 OnlineTag(isOnline)))
  /\ driverLocations' = IF location # NoLoc
                        THEN MapSet(driverLocations, driverId, location)
                        ELSE driverLocations
  /\ UNCHANGED <<now, rideCount, sockVars,
                 driverMovementHistory, activeRides, rideOrder, timers, race,
                 evicted>>

\* what the disconnect handler does to the client entry of socket.userId
markDisconnected(clients, userId) ==
  IF userId # NoId /\ userId \in DOMAIN clients
  THEN LET client == clients[userId]
       IN [clients EXCEPT ![userId] =
             [client EXCEPT !.connected = FALSE,
                            !.isOnline = IF client.userType = "driver"
                                         THEN FALSE ELSE client.isOnline]]
  ELSE clients

\* socket.on('disconnect'): the handler emits nothing
Disconnect(s) ==
  /\ s \in sockOpen
  /\ sockOpen' = sockOpen \ {s}
  /\ sockRooms' = [sockRooms EXCEPT ![s] = {}]
  /\ connectedClients' = markDisconnected(connectedClients, sockUser[s])
  /\ out' = EmptyBag
  /\ UNCHANGED <<now, rideCount, sockUser, driverLocations,
                 driverMovementHistory, activeRides, rideOrder, timers, race,
                 evicted>>

\* ----------------------------------------------------------- DispatchEngine
Timer(kind, ride, sock, user, driver) ==
  [kind |-> kind, ride |-> ride, sock |-> sock, user |-> user, driver |-> driver]

\* a broadcast filter that does not look at the connected flag
allDrivers_anyDriver(clients) ==
  {d \in DOMAIN clients : clients[d].userType = "driver"}

\* the drivers a ride_request is broadcast to
\* (filter: client.userType === 'driver' && client.connected === true)
allDrivers(clients) ==
  {d \in DOMAIN clients : clients[d].userType = "driver" /\ clients[d].connected}

\* a broadcast that reaches only the socket ids on record, not the rooms
OfferMsgs_socketOnly(clients, drivers, rideId) ==
  LET sockMsgs == {ToSock("ride_assigned", clients[d].socketId, rideId, d) :
                     d \in {x \in drivers : clients[x].socketId # 0}}
      notes == {Notify(d, rideId, "New Ride Request") : d \in drivers}
  IN SetToBag(sockMsgs) (+) SetToBag(notes)

\* the per-driver messages of the broadcast
OfferMsgs(clients, drivers, rideId) ==
  LET roomMsgs == {ToRoom("ride_assigned", d, rideId, "") : d \in drivers}
      sockMsgs == {ToSock("ride_assigned", clients[d].socketId, rideId, d) :
                     d \in {x \in drivers : clients[x].socketId # 0}}
      notes == {Notify(d, rideId, "New Ride Request") : d \in drivers}
  IN SetToBag(roomMsgs) (+) SetToBag(sockMsgs) (+) SetToBag(notes)

\* socket.on('ride_request')
RideRequest(s, userId, trip, estimatedDistance, estimatedPrice) ==
  /\ s \in sockOpen
  /\ LET pickup == trip[1]
         dropoff == trip[2]
         distance == IF Truthy(estimatedDistance) THEN estimatedDistance
                     ELSE calculateDistance(pickup, dropoff)
         price == IF Truthy(estimatedPrice) THEN estimatedPrice
                  ELSE calculateFare(distance)
         rideId == <<now, userId>>
         drivers == allDrivers(connectedClients)
         ride == NewRide(userId, distance, price)
         received == One(ToSock("ride_request_received", s, rideId, ""))
                     (+) One(Notify(userId, rideId, "Looking for Drivers"))
     IN IF userId = NoId \/ pickup = NoLoc \/ dropoff = NoLoc
        THEN /\ out' = One(ToSock("ride_request_error", s, NoRide, "missing"))
             /\ UNCHANGED <<activeRides, rideOrder, timers, rideCount, race,
                            evicted>>
        ELSE IF drivers = {}
        THEN /\ activeRides' = MapDel(activeRides, rideId)
             /\ rideOrder' = SeqDel(rideOrder, rideId)
             /\ out' = received
                       (+) One(ToSock("ride_request_error", s, rideId, "no drivers"))
                       (+) One(Notify(userId, rideId, "No Drivers Online"))
             /\ race' = [race EXCEPT ![rideId] = NoRace]
             /\ evicted' = [evicted EXCEPT ![rideId] = ride.status]
             /\ UNCHANGED <<timers, rideCount>>
        ELSE /\ activeRides' = MapSet(activeRides, rideId,
                                      [ride EXCEPT !.potentialDrivers = drivers])
             /\ rideOrder' = OrderSet(rideOrder, rideId)
             /\ out' = received (+) OfferMsgs(connectedClients, drivers, rideId)
             /\ timers' = timers \cup {Timer("timeout", rideId, s, userId, NoId)}
             /\ rideCount' = rideCount + 1
             /\ race' = [race EXCEPT ![rideId] = NoRace]
             /\ evicted' = [evicted EXCEPT ![rideId] = "none"]
  /\ UNCHANGED <<now, sockVars, connectedClients, driverLocations,
                 driverMovementHistory>>

\* a timeout guard that forgets to look at the status of the ride
timeoutApplies_anyStatus(rides, rideId) == rideId \in DOMAIN rides

\* the guard of the ride_request timeout callback
timeoutApplies(rides, rideId) ==
  rideId \in DOMAIN rides /\ rides[rideId].status = "searching"

\* the setTimeout callback of ride_request (30 s)
TimeoutFire(t) ==
  /\ t \in timers
  /\ t.kind = "timeout"
  /\ timers' = timers \ {t}
  /\ IF timeoutApplies(activeRides, t.ride)
     THEN /\ out' = One(ToSock("ride_request_error", t.sock, t.ride, "timeout"))
                    (+) One(Notify(t.user, t.ride, "No Driver Response"))
          /\ activeRides' = MapDel(activeRides, t.ride)
          /\ rideOrder' = SeqDel(rideOrder, t.ride)
          /\ evicted' = [evicted EXCEPT ![t.ride] = activeRides[t.ride].status]
     ELSE /\ out' = EmptyBag
          /\ UNCHANGED <<activeRides, rideOrder, evicted>>
  /\ UNCHANGED <<now, rideCount, sockVars, connectedClients,
                 driverLocations, driverMovementHistory, race>>

\* the checks of an accept without the check of the status
acceptVerdict_anyStatus(rides, rideId, driverId) ==
  IF rideId \notin DOMAIN rides THEN "Ride not found"
  ELSE IF driverId \notin rides[rideId].potentialDrivers THEN "not eligible"
  ELSE "ok"

\* the checks of an accept without the check of the candidates
acceptVerdict_anyDriver(rides, rideId, driverId) ==
  IF rideId \notin DOMAIN rides THEN "Ride not found"
  ELSE IF rides[rideId].status # "searching" THEN "already accepted"
  ELSE "ok"

\* the checks of driver_accept_ride, in the order of the code: the name of
\* the rejection, or "ok"
acceptVerdict(rides, rideId, driverId) ==
  IF rideId \notin DOMAIN rides THEN "Ride not found"
  ELSE IF rides[rideId].status # "searching" THEN "already accepted"
  ELSE IF driverId \notin rides[rideId].potentialDrivers THEN "not eligible"
  ELSE "ok"

\* a ride_taken broadcast that does not skip the accepting driver
takenRecipients_all(ride, driverId) == ride.potentialDrivers

\* the drivers that are sent ride_taken:
\* potentialDrivers.forEach(id => { if (id !== driverId) ... })
takenRecipients(ride, driverId) == ride.potentialDrivers \ {driverId}

\* socket.on('driver_accept_ride')
DriverAcceptRide(s, rideId, driverId) ==
  /\ s \in sockOpen
  /\ LET verdict == acceptVerdict(activeRides, rideId, driverId)
     IN IF verdict # "ok"
        THEN /\ out' = One(ToSock("ride_action_error", s, NoRide, verdict))
             /\ race' = IF /\ rideId \in DOMAIN activeRides
                           /\ driverId \in activeRides[rideId].potentialDrivers
                        THEN [race EXCEPT ![rideId].rejected = @ \cup {driverId}]
                        ELSE race
             /\ UNCHANGED activeRides
        ELSE LET ride == activeRides[rideId]
                 others == takenRecipients(ride, driverId)
             IN /\ activeRides' =
                     [activeRides EXCEPT ![rideId] =
                        [@ EXCEPT !.driverId = driverId,
                                  !.status = "driverAccepted",
                                  !.acceptedTime = now]]
                /\ out' = SetToBag({ToRoom("ride_taken", d, rideId, "") :
                                      d \in others})
                          (+) One(ToRoom("driver_accepted", ride.userId, rideId,
                                         driverId))
                          (+) One(Notify(ride.userId, rideId, "Driver Accepted!"))
                          (+) One(ToSock("ride_action_success", s, rideId,
                                         "accepted"))
                /\ race' = [race EXCEPT ![rideId].winners = @ \cup {driverId},
                                        ![rideId].taken = @ \cup others]
  /\ UNCHANGED <<now, rideCount, sockVars, connectedClients, driverLocations,
                 driverMovementHistory, rideOrder, timers, evicted>>

\* ------------------------------------------------------------ MovementHistory
Last(q) == q[Len(q)]

\* a push that drops the newest sample instead of the oldest
pushHistory_keepOldest(history, location) ==
  LET pushed == Append(history, location)
  IN IF Len(pushed) > HISTORY_CAP THEN SubSeq(pushed, 1, HISTORY_CAP) ELSE pushed

\* history.push(location); if (history.length > 100) history.shift()
pushHistory(history, location) ==
  LET pushed == Append(history, location)
  IN IF Len(pushed) > HISTORY_CAP THEN Tail(pushed) ELSE pushed

\* updateDriverMovement that counts every segment, however short
updateDriverMovement_anySegment(trails, driverId, location, ride) ==
  LET old == IF driverId \in DOMAIN trails THEN trails[driverId] ELSE <<>>
      history == pushHistory(old, location)
      segmentDistance == IF Len(history) >= 2
                         THEN calculateDistance(history[Len(history) - 1],
                                                history[Len(history)])
                         ELSE 0
      routed == [ride EXCEPT !.route = Append(@, location)]
      total == (IF Truthy(ride.actualDistance) THEN ride.actualDistance ELSE 0)
               + segmentDistance
  IN [trails |-> MapSet(trails, driverId, history),
      ride |-> IF Len(history) >= 2 /\ segmentDistance > 0
               THEN [routed EXCEPT !.actualDistance = total,
                                   !.updatedFare = calculateFare(total)]
               ELSE routed]

\* updateDriverMovement that assigns the segment instead of adding it
updateDriverMovement_restart(trails, driverId, location, ride) ==
  LET old == IF driverId \in DOMAIN trails THEN trails[driverId] ELSE <<>>
      history == pushHistory(old, location)
      segmentDistance == IF Len(history) >= 2
                         THEN calculateDistance(history[Len(history) - 1],
                                                history[Len(history)])
                         ELSE 0
      routed == [ride EXCEPT !.route = Append(@, location)]
  IN [trails |-> MapSet(trails, driverId, history),
      ride |-> IF Len(history) >= 2 /\ segmentDistance > SEGMENT_MIN
               THEN [routed EXCEPT !.actualDistance = segmentDistance,
                                   !.updatedFare = calculateFare(segmentDistance)]
               ELSE routed]

\* updateDriverMovement(io, driverId, location, ride) with a ride: the new
\* trail of the driver and the new ride (route, actualDistance, updatedFare)
updateDriverMovement(trails, driverId, location, ride) ==
  LET old == IF driverId \in DOMAIN trails THEN trails[driverId] ELSE <<>>
      history == pushHistory(old, location)
      segmentDistance == IF Len(history) >= 2
                         THEN calculateDistance(history[Len(history) - 1],
                                                history[Len(history)])
                         ELSE 0
      routed == [ride EXCEPT !.route = Append(@, location)]
      total == (IF Truthy(ride.actualDistance) THEN ride.actualDistance ELSE 0)
               + segmentDistance
  IN [trails |-> MapSet(trails, driverId, history),
      ride |-> IF Len(history) >= 2 /\ segmentDistance > SEGMENT_MIN
               THEN [routed EXCEPT !.actualDistance = total,
                                   !.updatedFare = calculateFare(total)]
               ELSE routed]

\* what both location handlers do for a driver with an active ride:
\* updateDriverMovement on that ride, then driver_location_update to its rider
trackDriver(driverId, location) ==
  LET r == findDriverActiveRide(activeRides, rideOrder, driverId)
      moved == updateDriverMovement(driverMovementHistory, driverId, location,
                                    activeRides[r])
  IN IF r = NoRide
     THEN [rides |-> activeRides, trails |-> driverMovementHistory,
           ride |-> NoRide, out |-> EmptyBag]
     ELSE [rides |-> [activeRides EXCEPT ![r] = moved.ride],
           trails |-> moved.trails,
           ride |-> r,
           out |-> One(ToRoom("driver_location_update", activeRides[r].userId,
                              r, driverId))]

\* socket.on('driver_location_update')
DriverLocationUpdate(s, driverId, location) ==
  /\ s \in sockOpen
  /\ IF driverId = NoId \/ location = NoLoc
     THEN /\ out' = EmptyBag
          /\ UNCHANGED <<driverLocations, connectedClients, activeRides,
                         driverMovementHistory>>
     ELSE LET tracked == trackDriver(driverId, location)
          IN /\ driverLocations' = MapSet(driverLocations, driverId, location)
             /\ connectedClients' =
                  IF driverId \in DOMAIN connectedClients
                  THEN [connectedClients EXCEPT ![driverId].location = location]
                  ELSE connectedClients
             /\ activeRides' = tracked.rides
             /\ driverMovementHistory' = tracked.trails
             /\ out' = tracked.out
  /\ UNCHANGED <<now, rideCount, sockVars, rideOrder, timers, race, evicted>>

\* the rider_location_update of update_location: the rider's ride is looked
\* up among the rides with an active status
RiderLocationMsgs(userId) ==
  LET r == FirstIn(rideOrder,
                   {x \in DOMAIN activeRides :
                      /\ activeRides[x].userId = userId
                      /\ activeRides[x].status \in ActiveStatuses})
  IN IF r # NoRide /\ activeRides[r].driverId # NoId
     THEN One(ToRoom("rider_location_update", activeRides[r].driverId, r, userId))
     ELSE EmptyBag

\* socket.on('update_location')
UpdateLocation(s, userId, location) ==
  /\ s \in sockOpen
  /\ IF userId = NoId \/ location = NoLoc \/ userId \notin DOMAIN connectedClients
     THEN /\ out' = EmptyBag
          /\ UNCHANGED <<driverLocations, activeRides, driverMovementHistory>>
     ELSE IF connectedClients[userId].userType = "driver"
     THEN LET tracked == trackDriver(userId, location)
              fare == IF tracked.ride # NoRide
                         /\ Truthy(tracked.rides[tracked.ride].updatedFare)
                      THEN One(ToRoom("fare_update",
                                      activeRides[tracked.ride].userId,
                                      tracked.ride, ""))
                      ELSE EmptyBag
          IN /\ driverLocations' = MapSet(driverLocations, userId, location)
             /\ activeRides' = tracked.rides
             /\ driverMovementHistory' = tracked.trails
             /\ out' = tracked.out (+) fare
                       (+) One(Msg("driver_location_update", "admin", 0, NoRide,
                                   userId))
     ELSE /\ out' = RiderLocationMsgs(userId)
          /\ UNCHANGED <<driverLocations, activeRides, driverMovementHistory>>
  /\ UNCHANGED <<now, rideCount, sockVars, connectedClients, rideOrder, timers,
                 race, evicted>>

\* socket.on('request_driver_movement'): the reply carries the trail of the
\* driver named in the payload
RequestDriverMovement(s, rideId, driverId) ==
  /\ s \in sockOpen
  /\ out' = IF \/ rideId = NoRide
               \/ driverId = NoId
               \/ rideId \notin DOMAIN activeRides
            THEN EmptyBag
            ELSE IF activeRides[rideId].userId # sockUser[s] THEN EmptyBag
            ELSE One(ToSock("driver_movement_history", s, rideId, driverId))
  /\ UNCHANGED <<now, rideCount, sockVars, connectedClients, driverLocations,
                 driverMovementHistory, activeRides, rideOrder, timers, race,
                 evicted>>

\* --------------------------------------------------------------- RideRegistry
\* the guard shared by the first driver_arrived handler, start_ride and
\* complete_ride: !ride || ride.driverId !== driverId
notAssigned(rides, rideId, driverId) ==
  rideId \notin DOMAIN rides \/ rides[rideId].driverId # driverId

NotAssignedMsg(s, rideId) ==
  One(ToSock("ride_action_error", s, NoRide, "not found or not assigned"))

\* first socket.on('driver_arrived') handler (line 714); st = [rides, out]
arrived1(st, s, rideId, driverId) ==
  IF notAssigned(st.rides, rideId, driverId)
  THEN [st EXCEPT !.out = @ (+) NotAssignedMsg(s, rideId)]
  ELSE LET ride == st.rides[rideId]
       IN [rides |-> [st.rides EXCEPT ![rideId].status = "driverArrived"],
           out |-> st.out
                   (+) One(ToRoom("driver_arrived", ride.userId, rideId, "driver"))
                   (+) One(Notify(ride.userId, rideId, "Driver Arrived"))
                   (+) One(ToSock("ride_action_success", s, rideId, "arrived"))]

\* second socket.on('driver_arrived') handler (line 1026)
arrived2(st, rideId, driverId) ==
  IF rideId \notin DOMAIN st.rides THEN st
  ELSE LET ride == st.rides[rideId]
       IN [rides |-> [st.rides EXCEPT ![rideId] =
                        [@ EXCEPT !.status = "driverArrived",
                                  !.route = IF Len(@) > 0 THEN <<Last(@)>> ELSE @,
                                  !.actualDistance = 0]],
           out |-> st.out
                   (+) One(ToRoom("driver_arrived", ride.userId, rideId, driverId))
                   (+) One(Notify(ride.userId, rideId, "Driver Arrived"))]

\* a driver_arrived event: both handlers, in registration order
DriverArrived(s, rideId, driverId) ==
  /\ s \in sockOpen
  /\ LET st0 == [rides |-> activeRides, out |-> EmptyBag]
         st2 == arrived2(arrived1(st0, s, rideId, driverId), rideId, driverId)
     IN /\ activeRides' = st2.rides
        /\ out' = st2.out
  /\ UNCHANGED <<now, rideCount, sockVars, connectedClients,
                 driverLocations, driverMovementHistory, rideOrder, timers, race,
                 evicted>>

\* socket.on('start_ride')
StartRide(s, rideId, driverId) ==
  /\ s \in sockOpen
  /\ IF notAssigned(activeRides, rideId, driverId)
     THEN /\ out' = NotAssignedMsg(s, rideId)
          /\ UNCHANGED activeRides
     ELSE LET ride == activeRides[rideId]
          IN /\ activeRides' = [activeRides EXCEPT ![rideId] =
                                  [@ EXCEPT !.status = "inProgress",
                                            !.startTime = now]]
             /\ out' = One(ToRoom("ride_started", ride.userId, rideId, "driver"))
                       (+) One(Notify(ride.userId, rideId, "Ride Started"))
                       (+) One(ToSock("ride_action_success", s, rideId, "started"))
  /\ UNCHANGED <<now, rideCount, sockVars, connectedClients,
                 driverLocations, driverMovementHistory, rideOrder, timers, race,
                 evicted>>

\* socket.on('complete_ride'); schedules the 5 min clean-up
CompleteRide(s, rideId, driverId, actualPrice) ==
  /\ s \in sockOpen
  /\ IF notAssigned(activeRides, rideId, driverId)
     THEN /\ out' = NotAssignedMsg(s, rideId)
          /\ UNCHANGED <<activeRides, timers>>
     ELSE LET ride == activeRides[rideId]
          IN /\ activeRides' = [activeRides EXCEPT ![rideId] =
                                  [@ EXCEPT !.status = "completed",
                                            !.endTime = now,
                                            !.actualPrice =
                                               IF Truthy(actualPrice)
                                               THEN actualPrice
                                               ELSE ride.estimatedPrice]]
             /\ out' = One(ToRoom("ride_completed", ride.userId, rideId, "driver"))
                       (+) One(Notify(ride.userId, rideId, "Ride Completed"))
                       (+) One(ToSock("ride_action_success", s, rideId, "completed"))
             /\ timers' = timers \cup {Timer("cleanup", rideId, 0, NoId, NoId)}
  /\ UNCHANGED <<now, rideCount, sockVars, connectedClients,
                 driverLocations, driverMovementHistory, rideOrder, race, evicted>>

\* the permission check of both cancel_ride handlers:
\* ride.userId !== userId && ride.driverId !== userId
cancelDenied(ride, userId) == ride.userId # userId /\ ride.driverId # userId

\* first socket.on('cancel_ride') handler (line 858); st = [rides, timers, out]
cancel1(st, s, rideId, userId, reason) ==
  IF rideId \notin DOMAIN st.rides
  THEN [st EXCEPT !.out = @ (+) One(ToSock("ride_action_error", s, NoRide,
                                           "Ride not found"))]
  ELSE IF cancelDenied(st.rides[rideId], userId)
  THEN [st EXCEPT !.out = @ (+) One(ToSock("ride_action_error", s, NoRide,
                                           "no permission"))]
  ELSE LET ride == st.rides[rideId]
           by == IF ride.userId = userId THEN "passenger" ELSE "driver"
       IN [rides |-> [st.rides EXCEPT ![rideId] =
                        [@ EXCEPT !.status = "cancelled",
                                  !.cancelledBy = by,
                                  !.cancellationReason =
                                     IF reason # "" THEN reason
                                     ELSE "No reason provided"]],
           timers |-> st.timers \cup {Timer("cleanup", rideId, 0, NoId, NoId)},
           out |-> st.out
                   (+) (IF ride.userId # userId
                        THEN One(ToRoom("ride_cancelled", ride.userId, rideId, by))
                             (+) One(Notify(ride.userId, rideId, "Ride Cancelled"))
                        ELSE EmptyBag)
                   (+) (IF ride.driverId # NoId /\ ride.driverId # userId
                        THEN One(ToRoom("ride_cancelled", ride.driverId, rideId, by))
                             (+) One(Notify(ride.driverId, rideId, "Ride Cancelled"))
                        ELSE EmptyBag)
                   (+) One(ToSock("ride_action_success", s, rideId, "cancelled"))]

\* second socket.on('cancel_ride') handler (line 1180)
cancel2(st, s, rideId, userId) ==
  IF rideId \notin DOMAIN st.rides THEN st
  ELSE IF cancelDenied(st.rides[rideId], userId)
  THEN [st EXCEPT !.out = @ (+) One(ToSock("ride_error", s, rideId,
                                           "not authorized"))]
  ELSE LET ride == st.rides[rideId]
           cancelledByRider == ride.userId = userId
           by == IF cancelledByRider THEN "rider" ELSE "driver"
           notifyUserId == IF cancelledByRider THEN ride.driverId ELSE ride.userId
       IN [rides |-> [st.rides EXCEPT ![rideId] =
                        [@ EXCEPT !.status = "cancelled",
                                  !.cancelledBy = userId]],
           timers |-> st.timers \cup
                        {Timer("cleanupHistory", rideId, 0, NoId, ride.driverId)},
           out |-> st.out
                   (+) (IF notifyUserId # NoId
                        THEN One(ToRoom("ride_cancelled", notifyUserId, rideId, by))
                             (+) One(Notify(notifyUserId, rideId, "Ride Cancelled"))
                        ELSE EmptyBag)
                   (+) One(ToSock("ride_cancelled_confirmation", s, rideId, ""))]

\* a cancel_ride event: both handlers, in registration order
CancelRide(s, rideId, userId, reason) ==
  /\ s \in sockOpen
  /\ LET st0 == [rides |-> activeRides, timers |-> timers, out |-> EmptyBag]
         st2 == cancel2(cancel1(st0, s, rideId, userId, reason), s, rideId, userId)
     IN /\ activeRides' = st2.rides
        /\ timers' = st2.timers
        /\ out' = st2.out
  /\ UNCHANGED <<now, rideCount, sockVars, connectedClients,
                 driverLocations, driverMovementHistory, rideOrder, race, evicted>>

\* socket.on('driver_accepted') (line 990)
DriverAccepted(s, rideId, driverId) ==
  /\ s \in sockOpen
  /\ rideId \in DOMAIN activeRides
  /\ LET ride == [activeRides[rideId] EXCEPT !.status = "driverAccepted"]
         trails == IF driverId \in DOMAIN driverMovementHistory
                   THEN driverMovementHistory
                   ELSE MapSet(driverMovementHistory, driverId, <<>>)
         moved == IF driverId \in DOMAIN driverLocations
                  THEN updateDriverMovement(trails, driverId,
                                            driverLocations[driverId], ride)
                  ELSE [trails |-> trails, ride |-> ride]
     IN /\ activeRides' = [activeRides EXCEPT ![rideId] = moved.ride]
        /\ driverMovementHistory' = moved.trails
        /\ out' = One(ToRoom("driver_accepted", ride.userId, rideId, driverId))
                  (+) One(Notify(ride.userId, rideId, "Ride Accepted"))
  /\ UNCHANGED <<now, rideCount, sockVars, connectedClients,
                 driverLocations, rideOrder, timers, race, evicted>>

\* socket.on('ride_started') (line 1065)
RideStarted(s, rideId, driverId) ==
  /\ s \in sockOpen
  /\ rideId \in DOMAIN activeRides
  /\ LET ride == activeRides[rideId]
     IN /\ activeRides' = [activeRides EXCEPT ![rideId] =
                             [@ EXCEPT !.status = "inProgress",
                                       !.startTime = now,
                                       !.actualDistance = 0,
                                       !.route =
                                          IF driverId \in DOMAIN driverLocations
                                          THEN <<driverLocations[driverId]>>
                                          ELSE <<>>]]
        /\ out' = One(ToRoom("ride_started", ride.userId, rideId, driverId))
                  (+) One(Notify(ride.userId, rideId, "Ride Started"))
  /\ UNCHANGED <<now, rideCount, sockVars, connectedClients,
                 driverLocations, driverMovementHistory, rideOrder, timers, race,
                 evicted>>

\* socket.on('ride_completed') (line 1108); schedules the 10 min clean-up
RideCompleted(s, rideId, driverId) ==
  /\ s \in sockOpen
  /\ rideId \in DOMAIN activeRides
  /\ LET ride == activeRides[rideId]
         distance == IF Truthy(ride.actualDistance) THEN ride.actualDistance
                     ELSE ride.estimatedDistance
     IN /\ activeRides' = [activeRides EXCEPT ![rideId] =
                             [@ EXCEPT !.status = "completed",
                                       !.endTime = now,
                                       !.finalFare = calculateFare(distance),
                                       !.actualDistance = distance]]
        /\ out' = One(ToRoom("ride_completed", ride.userId, rideId, driverId))
                  (+) One(Notify(ride.userId, rideId, "Ride Completed"))
                  (+) One(ToRoom("ride_completed_driver", driverId, rideId, ""))
  /\ timers' = timers \cup {Timer("cleanupHistory", rideId, 0, NoId, driverId)}
  /\ UNCHANGED <<now, rideCount, sockVars, connectedClients,
                 driverLocations, driverMovementHistory, rideOrder, race, evicted>>

\* the clean-up setTimeout callbacks: complete_ride and the first cancel_ride
\* handler delete the ride ("cleanup"); ride_completed and the second
\* cancel_ride handler also delete the driver's movement history
CleanupFire(t) ==
  /\ t \in timers
  /\ t.kind \in {"cleanup", "cleanupHistory"}
  /\ timers' = timers \ {t}
  /\ activeRides' = MapDel(activeRides, t.ride)
  /\ rideOrder' = SeqDel(rideOrder, t.ride)
  /\ driverMovementHistory' =
       IF t.kind = "cleanupHistory" /\ t.driver # NoId
       THEN MapDel(driverMovementHistory, t.driver)
       ELSE driverMovementHistory
  /\ evicted' = IF t.ride \in DOMAIN activeRides
                THEN [evicted EXCEPT ![t.ride] = activeRides[t.ride].status]
                ELSE evicted
  /\ out' = EmptyBag
  /\ UNCHANGED <<now, rideCount, sockVars, connectedClients,
                 driverLocations, race>>

\* ------------------------------------------------------------ specification
\* The environment: the client behind a connection puts its own id in the
\* payloads it sends (cancel_ride may leave the requester id out); the ride
\* id of a payload is the id of a ride in the registry or an unknown id.
RideIdInputs == DOMAIN activeRides \cup {NoRide}

OwnedBy(s, S) == {SocketOwner(s)} \cap S

\* a step of socket.js with the notification store and the REST endpoints
\* left aside
SocketOnly == UNCHANGED <<bridgeVars, restVars>>

\* one more inbound event is handled
Inbound == events < MaxEvents /\ events' = events + 1

Next ==
  \/ Tick /\ UNCHANGED events /\ SocketOnly
  \/ \E s \in Sockets : \E u \in OwnedBy(s, Users) :
       Inbound /\ Authenticate(s, u, UserTypeOf(u)) /\ SocketOnly
  \/ \E s \in Sockets : \E d \in OwnedBy(s, Drivers) :
       \E b \in BOOLEAN, l \in StatusLocInputs :
         Inbound /\ DriverStatusUpdate(s, d, b, l) /\ SocketOnly
  \/ \E s \in Sockets : Inbound /\ Disconnect(s) /\ SocketOnly
  \/ \E s \in Sockets : \E u \in OwnedBy(s, Riders) :
       \E trip \in TripInputs, dist \in EstDistanceInputs, price \in EstPriceInputs :
         Inbound /\ rideCount < MaxRides /\ RideRequest(s, u, trip, dist, price) /\ SocketOnly
  \/ \E t \in timers : TimeoutFire(t) /\ UNCHANGED events /\ SocketOnly
  \/ \E s \in Sockets, r \in RideIdInputs : \E d \in OwnedBy(s, Drivers) :
       Inbound /\ DriverAcceptRide(s, r, d) /\ SocketOnly
  \/ \E s \in Sockets, r \in RideIdInputs : \E d \in OwnedBy(s, Drivers) :
       Inbound /\ DriverArrived(s, r, d) /\ SocketOnly
  \/ \E s \in Sockets, r \in RideIdInputs : \E d \in OwnedBy(s, Drivers) :
       Inbound /\ StartRide(s, r, d) /\ SocketOnly
  \/ \E s \in Sockets, r \in RideIdInputs : \E d \in OwnedBy(s, Drivers) :
       \E p \in ActualPriceInputs : Inbound /\ CompleteRide(s, r, d, p) /\ SocketOnly
  \/ \E s \in Sockets, r \in RideIdInputs :
       \E u \in OwnedBy(s, Users) \cup {NoId}, reason \in ReasonInputs :
         Inbound /\ CancelRide(s, r, u, reason) /\ SocketOnly
  \/ \E s \in Sockets, r \in RideIdInputs : \E d \in OwnedBy(s, Drivers) :
       Inbound /\ DriverAccepted(s, r, d) /\ SocketOnly
  \/ \E s \in Sockets, r \in RideIdInputs : \E d \in OwnedBy(s, Drivers) :
       Inbound /\ RideStarted(s, r, d) /\ SocketOnly
  \/ \E s \in Sockets, r \in RideIdInputs : \E d \in OwnedBy(s, Drivers) :
       Inbound /\ RideCompleted(s, r, d) /\ SocketOnly
  \/ \E s \in Sockets, l \in LocationInputs : \E d \in OwnedBy(s, Drivers) :
       Inbound /\ DriverLocationUpdate(s, d, l) /\ SocketOnly
  \/ \E s \in Sockets, l \in LocationInputs : \E u \in OwnedBy(s, Users) :
       Inbound /\ UpdateLocation(s, u, l) /\ SocketOnly
  \/ \E s \in Sockets, r \in RideIdInputs, d \in Drivers :
       Inbound /\ RequestDriverMovement(s, r, d) /\ SocketOnly
  \/ \E t \in timers : CleanupFire(t) /\ UNCHANGED events /\ SocketOnly

Spec == Init /\ [][Next]_vars

\* Node runs the callback of every setTimeout once its delay has passed, as
\* long as the process lives: a pending timer does not wait forever.  Nothing
\* obliges a client to send an event.
TimeoutsRun == \E t \in timers : TimeoutFire(t) /\ UNCHANGED events /\ SocketOnly
CleanupsRun == \E t \in timers : CleanupFire(t) /\ UNCHANGED events /\ SocketOnly

SpecFair == Spec /\ WF_vars(TimeoutsRun) /\ WF_vars(CleanupsRun)

\* ------------------------------------------------------------------- the trip
\* The trip of one ride: the state after rider u1 has authenticated and sent
\* ride_request at instant 0, the connected drivers were offered the ride,
\* d1 accepted it and the 30 s timer fired without effect.
TripRide == <<0, "u1">>

TripClient(u, online) ==
  IF u \in Drivers
  THEN InitClient(u, IF online THEN "online" ELSE "offline")
  ELSE [socketId |-> FirstSocket(u), userType |-> "user", connected |-> TRUE,
        isOnline |-> TRUE, location |-> NoLoc]

TripInit ==
  /\ now = 0
  /\ sockOpen = Sockets
  /\ \E cands \in {{"d1"}, {"d1", "d2"}} : \E online \in [cands -> BOOLEAN] :
       LET in == cands \cup {"u1"}
       IN /\ connectedClients =
               [u \in in |-> TripClient(u, u \in cands /\ online[u])]
          /\ sockUser = [s \in Sockets |->
                          IF \E u \in in : s = FirstSocket(u)
                          THEN SocketOwner(s) ELSE NoId]
          /\ sockRooms = [s \in Sockets |->
                           IF \E u \in in : s = FirstSocket(u)
                           THEN {SocketOwner(s)} ELSE {}]
          /\ activeRides =
               (TripRide :>
                  [NewRide("u1", 5980, calculateFare(5980)) EXCEPT
                     !.potentialDrivers = cands, !.driverId = "d1",
                     !.status = "driverAccepted", !.acceptedTime = 0])
          /\ race = [r \in RideIds |->
                       IF r = TripRide
                       THEN [winners |-> {"d1"}, rejected |-> {},
                             taken |-> cands \ {"d1"}]
                       ELSE NoRace]
  /\ driverLocations = <<>>
  /\ driverMovementHistory = <<>>
  /\ rideOrder = <<TripRide>>
  /\ timers = {}
  /\ out = EmptyBag
  /\ rideCount = 1
  /\ events = 0
  /\ evicted = [r \in RideIds |-> "none"]
  /\ BridgeIdle
  /\ RestIdle

\* the events of a trip
NextTrip ==
  \/ \E s \in Sockets, l \in LocationInputs : \E d \in OwnedBy(s, Drivers) :
       Inbound /\ DriverLocationUpdate(s, d, l) /\ SocketOnly
  \/ \E s \in Sockets, l \in LocationInputs : \E u \in OwnedBy(s, Users) :
       Inbound /\ UpdateLocation(s, u, l) /\ SocketOnly
  \/ \E s \in Sockets, r \in RideIdInputs, d \in Drivers :
       Inbound /\ RequestDriverMovement(s, r, d) /\ SocketOnly
  \/ \E s \in Sockets, r \in RideIdInputs : \E d \in OwnedBy(s, Drivers) :
       Inbound /\ DriverArrived(s, r, d) /\ SocketOnly
  \/ \E s \in Sockets, r \in RideIdInputs : \E d \in OwnedBy(s, Drivers) :
       Inbound /\ StartRide(s, r, d) /\ SocketOnly
  \/ \E s \in Sockets, r \in RideIdInputs : \E d \in OwnedBy(s, Drivers) :
       \E p \in ActualPriceInputs : Inbound /\ CompleteRide(s, r, d, p) /\ SocketOnly
  \/ \E s \in Sockets, r \in RideIdInputs :
       \E u \in OwnedBy(s, Users) \cup {NoId}, reason \in ReasonInputs :
         Inbound /\ CancelRide(s, r, u, reason) /\ SocketOnly
  \/ \E s \in Sockets, r \in RideIdInputs : \E d \in OwnedBy(s, Drivers) :
       Inbound /\ DriverAccepted(s, r, d) /\ SocketOnly
  \/ \E s \in Sockets, r \in RideIdInputs : \E d \in OwnedBy(s, Drivers) :
       Inbound /\ RideStarted(s, r, d) /\ SocketOnly
  \/ \E s \in Sockets, r \in RideIdInputs : \E d \in OwnedBy(s, Drivers) :
       Inbound /\ RideCompleted(s, r, d) /\ SocketOnly
  \/ \E t \in timers : CleanupFire(t) /\ UNCHANGED events /\ SocketOnly

SpecTrip == TripInit /\ [][NextTrip]_vars

\* ----------------------------------------------------------------- retention
\* The ride of one request and what may follow it within the same
\* millisecond or later: the state right after rider u1, authenticated, sent
\* ride_request at instant 0 and the connected drivers were offered the ride;
\* the 30 s timer is pending.  The rider may send one more ride_request.
RetainInit ==
  /\ now = 0
  /\ sockOpen = Sockets
  /\ \E cands \in {{"d1"}, {"d1", "d2"}} : \E online \in [cands -> BOOLEAN] :
       LET in == cands \cup {"u1"}
       IN /\ connectedClients =
               [u \in in |-> TripClient(u, u \in cands /\ online[u])]
          /\ sockUser = [s \in Sockets |->
                          IF \E u \in in : s = FirstSocket(u)
                          THEN SocketOwner(s) ELSE NoId]
          /\ sockRooms = [s \in Sockets |->
                           IF \E u \in in : s = FirstSocket(u)
                           THEN {SocketOwner(s)} ELSE {}]
          /\ activeRides =
               (TripRide :>
                  [NewRide("u1", 5980, calculateFare(5980)) EXCEPT
                     !.potentialDrivers = cands])
  /\ driverLocations = <<>>
  /\ driverMovementHistory = <<>>
  /\ rideOrder = <<TripRide>>
  /\ timers = {Timer("timeout", TripRide, FirstSocket("u1"), "u1", NoId)}
  /\ out = EmptyBag
  /\ rideCount = 1
  /\ events = 0
  /\ race = [r \in RideIds |-> NoRace]
  /\ evicted = [r \in RideIds |-> "none"]
  /\ BridgeIdle
  /\ RestIdle

NextRetain ==
  \/ Tick /\ UNCHANGED events /\ SocketOnly
  \/ \E s \in Sockets : Inbound /\ Disconnect(s) /\ SocketOnly
  \/ \E s \in Sockets : \E u \in OwnedBy(s, Riders) :
       \E trip \in TripInputs, dist \in EstDistanceInputs, price \in EstPriceInputs :
         Inbound /\ rideCount <= MaxRides /\ RideRequest(s, u, trip, dist, price) /\ SocketOnly
  \/ TimeoutsRun
  \/ \E s \in Sockets, r \in RideIdInputs : \E d \in OwnedBy(s, Drivers) :
       Inbound /\ DriverAcceptRide(s, r, d) /\ SocketOnly
  \/ \E s \in Sockets, r \in RideIdInputs : \E d \in OwnedBy(s, Drivers) :
       \E p \in ActualPriceInputs : Inbound /\ CompleteRide(s, r, d, p) /\ SocketOnly
  \/ \E s \in Sockets, r \in RideIdInputs :
       \E u \in OwnedBy(s, Users) \cup {NoId}, reason \in ReasonInputs :
         Inbound /\ CancelRide(s, r, u, reason) /\ SocketOnly
  \/ CleanupsRun

SpecRetain ==
  RetainInit /\ [][NextRetain]_vars /\ WF_vars(TimeoutsRun) /\ WF_vars(CleanupsRun)

\* ------------------------------------------------------------------ the trail
\* A long trip: d1 accepted the ride of u1, sent n location samples that
\* alternate between the points 0 and 30, and then driver_arrived, which
\* reseeded the route and reset the distance.  n is just below or at the cap
\* of the trail.
TrailLengths == {HISTORY_CAP - 2, HISTORY_CAP - 1, HISTORY_CAP}

TrailOf(n) == [i \in 1..n |-> IF i % 2 = 1 THEN 0 ELSE 30]

TrailInit ==
  /\ now = 0
  /\ sockOpen = Sockets
  /\ \E n \in TrailLengths :
       /\ driverMovementHistory = ("d1" :> TrailOf(n))
       /\ driverLocations = ("d1" :> TrailOf(n)[n])
       /\ connectedClients =
            [u \in {"d1", "u1"} |->
               IF u = "d1"
               THEN [TripClient(u, TRUE) EXCEPT !.location = TrailOf(n)[n]]
               ELSE TripClient(u, TRUE)]
       /\ activeRides =
            (TripRide :>
               [NewRide("u1", 5980, calculateFare(5980)) EXCEPT
                  !.potentialDrivers = {"d1"}, !.driverId = "d1",
                  !.status = "driverArrived", !.acceptedTime = 0,
                  !.route = <<TrailOf(n)[n]>>, !.actualDistance = 0,
                  !.updatedFare = calculateFare(30 * (n - 1))])
  /\ sockUser = [s \in Sockets |->
                  IF \E u \in {"d1", "u1"} : s = FirstSocket(u)
                  THEN SocketOwner(s) ELSE NoId]
  /\ sockRooms = [s \in Sockets |->
                   IF \E u \in {"d1", "u1"} : s = FirstSocket(u)
                   THEN {SocketOwner(s)} ELSE {}]
  /\ race = [r \in RideIds |->
               IF r = TripRide
               THEN [winners |-> {"d1"}, rejected |-> {}, taken |-> {}]
               ELSE NoRace]
  /\ rideOrder = <<TripRide>>
  /\ timers = {}
  /\ out = EmptyBag
  /\ rideCount = 1
  /\ events = 0
  /\ evicted = [r \in RideIds |-> "none"]
  /\ BridgeIdle
  /\ RestIdle

\* the location samples of the trip
NextTrail ==
  \/ \E s \in Sockets, l \in LocationInputs : \E d \in OwnedBy(s, Drivers) :
       Inbound /\ DriverLocationUpdate(s, d, l) /\ SocketOnly
  \/ \E s \in Sockets, l \in LocationInputs : \E u \in OwnedBy(s, Users) :
       Inbound /\ UpdateLocation(s, u, l) /\ SocketOnly

SpecTrail == TrailInit /\ [][NextTrail]_vars

\* -------------------------------------------------------------- ride creation
\* ride_request with trips of 1 km, 2.5 km and 5.98 km, with and without the
\* optional estimatedDistance and estimatedPrice of the client
FareTripInputs == {<<0, 1000>>, <<0, 2500>>, <<0, 5980>>}
FareDistanceInputs == {NoNum, 2000}
FarePriceInputs == {NoNum, 30}

NextFare ==
  \/ Tick /\ UNCHANGED events /\ SocketOnly
  \/ \E s \in Sockets : \E u \in OwnedBy(s, Users) :
       Inbound /\ Authenticate(s, u, UserTypeOf(u)) /\ SocketOnly
  \/ \E s \in Sockets : \E u \in OwnedBy(s, Riders) :
       \E trip \in FareTripInputs, dist \in FareDistanceInputs,
          price \in FarePriceInputs :
         Inbound /\ rideCount < MaxRides /\ RideRequest(s, u, trip, dist, price) /\ SocketOnly
  \/ \E t \in timers : TimeoutFire(t) /\ UNCHANGED events /\ SocketOnly

SpecFare == Init /\ [][NextFare]_vars

\* ------------------------------------------------------- foreign payloads
\* The location handlers take the driver (user) id from the payload, so a
\* client can put any id there: the location events of a trip with the id of
\* the payload not tied to the connection that sends it.
NextForeign ==
  \/ \E s \in Sockets, l \in LocationInputs, d \in Drivers :
       Inbound /\ DriverLocationUpdate(s, d, l) /\ SocketOnly
  \/ \E s \in Sockets, l \in LocationInputs, u \in Users :
       Inbound /\ UpdateLocation(s, u, l) /\ SocketOnly

SpecForeign == TripInit /\ [][NextForeign]_vars

\* ------------------------------------------------------------- reconnection
\* A driver who comes back on a new connection: the connections of a run and
\* one more, which belongs to d1 again (d1, d2, u1, d1).  The drivers have
\* signed in on their first connection or not at all; the old connection of a
\* driver may still be open when the new one authenticates, and its
\* disconnect event may be handled before or after.
Connections == 1..(MaxSockets + 1)

\* optional location of a driver_status_update
ReconnectLocInputs == {NoLoc, 10}

ReconnectInit ==
  /\ now = 0
  /\ sockOpen = Connections
  /\ \E mode \in [Drivers -> SignedIn] :
       LET in == {d \in Drivers : mode[d] # "absent"}
       IN /\ connectedClients = [d \in in |-> InitClient(d, mode[d])]
          /\ sockUser = [s \in Connections |->
                          IF \E d \in in : s = FirstSocket(d)
                          THEN SocketOwner(s) ELSE NoId]
          /\ sockRooms = [s \in Connections |->
                           IF \E d \in in : s = FirstSocket(d)
                           THEN {SocketOwner(s)} ELSE {}]
  /\ driverLocations = <<>>
  /\ driverMovementHistory = <<>>
  /\ activeRides = <<>>
  /\ rideOrder = <<>>
  /\ timers = {}
  /\ out = EmptyBag
  /\ rideCount = 0
  /\ events = 0
  /\ race = [r \in RideIds |-> NoRace]
  /\ evicted = [r \in RideIds |-> "none"]
  /\ BridgeIdle
  /\ RestIdle

NextReconnect ==
  \/ \E s \in Connections : \E u \in OwnedBy(s, Users) :
       Inbound /\ Authenticate(s, u, UserTypeOf(u)) /\ SocketOnly
  \/ \E s \in Connections : \E d \in OwnedBy(s, Drivers) :
       \E b \in BOOLEAN, l \in ReconnectLocInputs :
         Inbound /\ DriverStatusUpdate(s, d, b, l) /\ SocketOnly
  \/ \E s \in Connections, l \in LocationInputs : \E d \in OwnedBy(s, Drivers) :
       Inbound /\ DriverLocationUpdate(s, d, l) /\ SocketOnly
  \/ \E s \in Connections : Inbound /\ Disconnect(s) /\ SocketOnly
  \/ \E s \in Connections : \E u \in OwnedBy(s, Riders) :
       \E trip \in TripInputs, dist \in EstDistanceInputs, price \in EstPriceInputs :
         Inbound /\ rideCount < MaxRides /\ RideRequest(s, u, trip, dist, price) /\ SocketOnly
  \/ TimeoutsRun

SpecReconnect == ReconnectInit /\ [][NextReconnect]_vars

\* --------------------------------------------------------------- the next ride
\* A driver's rides one after the other: from the state of a trip (d1
\* accepted the ride of u1) the driver sends location samples and
\* complete_ride, the 5 min clean-up removes the ride, and the rider requests
\* the next ride, which a driver accepts and drives.
Further == events < MaxEvents + 2 /\ events' = events + 1

NextNextRide ==
  \/ \E s \in Sockets, l \in LocationInputs : \E d \in OwnedBy(s, Drivers) :
       Further /\ DriverLocationUpdate(s, d, l) /\ SocketOnly
  \/ \E s \in Sockets, r \in RideIdInputs : \E d \in OwnedBy(s, Drivers) :
       \E p \in ActualPriceInputs : Further /\ CompleteRide(s, r, d, p) /\ SocketOnly
  \/ \E s \in Sockets : \E u \in OwnedBy(s, Riders) :
       \E trip \in TripInputs, dist \in EstDistanceInputs, price \in EstPriceInputs :
         Further /\ rideCount <= MaxRides /\ RideRequest(s, u, trip, dist, price) /\ SocketOnly
  \/ \E s \in Sockets, r \in RideIdInputs : \E d \in OwnedBy(s, Drivers) :
       Further /\ DriverAcceptRide(s, r, d) /\ SocketOnly
  \/ TimeoutsRun
  \/ CleanupsRun

SpecNextRide == TripInit /\ [][NextNextRide]_vars

\* ------------------------------------------------------------ to the pickup
\* From the state right after a ride_request (the ride is searching, the
\* connected drivers were offered it): the drivers report their location, a
\* driver accepts the ride, drives to the pickup and reports the arrival.
NextPickup ==
  \/ \E s \in Sockets, l \in LocationInputs : \E d \in OwnedBy(s, Drivers) :
       Inbound /\ DriverLocationUpdate(s, d, l) /\ SocketOnly
  \/ \E s \in Sockets, r \in RideIdInputs : \E d \in OwnedBy(s, Drivers) :
       Inbound /\ DriverAcceptRide(s, r, d) /\ SocketOnly
  \/ \E s \in Sockets, r \in RideIdInputs : \E d \in OwnedBy(s, Drivers) :
       Inbound /\ DriverArrived(s, r, d) /\ SocketOnly
  \/ TimeoutsRun

SpecPickup == RetainInit /\ [][NextPickup]_vars

\* ------------------------------------------------------- single assignment
\* The socket handlers of src/src/routes/notification.routes.js, the variant
\* in which the server picks one driver for a ride.  It registers two
\* ride_request handlers (lines 551 and 1083), so a ride_request creates two
\* rides, `ride_${Date.now()}_${userId}` and `ride_${Date.now()}` (the id
\* <<now, NoId>>), each with a 5 s search timer; the callback of the first
\* starts a 3 s auto-accept timer.  The callbacks work on the ride object of
\* their closure.  The two cancel_ride handlers are those of socket.js, and
\* their clean-up delays (1 min, 5 min) are longer than 5 s + 3 s: while a
\* search or auto-accept timer of a ride is pending the ride is in the
\* registry, as the object the closure holds.
AssignTimers == {"search", "search2", "autoAccept"}

PendingFor(rideId) == \E t \in timers : t.ride = rideId /\ t.kind \in AssignTimers

\* filter of the first search timer: driver, connected, isOnline and no
\* active ride
availableDrivers(clients, rides) ==
  {d \in DOMAIN clients :
     /\ clients[d].userType = "driver"
     /\ clients[d].connected
     /\ clients[d].isOnline
     /\ DriverActiveRides(rides, d) = {}}

\* a ride_request event: both handlers, in registration order; requests of
\* one run arrive in different milliseconds
RequestAssign(s, userId, trip, estimatedDistance, estimatedPrice) ==
  /\ s \in sockOpen
  /\ LET pickup == trip[1]
         dropoff == trip[2]
         distance == IF Truthy(estimatedDistance) THEN estimatedDistance
                     ELSE calculateDistance(pickup, dropoff)
         price == IF Truthy(estimatedPrice) THEN estimatedPrice
                  ELSE calculateFare(distance)
         price2 == IF Truthy(estimatedPrice) THEN estimatedPrice ELSE 0
         rideId == <<now, userId>>
         rideId2 == <<now, NoId>>
         received(r) == One(ToSock("ride_request_received", s, r, ""))
                        (+) One(Notify(userId, r, "Looking for Drivers"))
     IN IF userId = NoId \/ pickup = NoLoc \/ dropoff = NoLoc
        THEN /\ out' = One(ToSock("ride_request_error", s, NoRide, "missing"))
                       (+) One(ToSock("ride_request_error", s, NoRide, "missing"))
             /\ UNCHANGED <<activeRides, rideOrder, timers, rideCount>>
        ELSE /\ rideId \notin DOMAIN activeRides
             /\ rideId2 \notin DOMAIN activeRides
             /\ activeRides' =
                  MapSet(MapSet(activeRides, rideId, NewRide(userId, distance, price)),
                         rideId2, NewRide(userId, NoNum, price2))
             /\ rideOrder' = OrderSet(OrderSet(rideOrder, rideId), rideId2)
             /\ timers' = timers \cup {Timer("search", rideId, s, userId, NoId),
                                       Timer("search2", rideId2, s, userId, NoId)}
             /\ out' = received(rideId) (+) received(rideId2)
             /\ rideCount' = rideCount + 1
  /\ UNCHANGED <<now, sockVars, connectedClients, driverLocations,
                 driverMovementHistory, race, evicted>>

\* the callback of a search timer (lines 630 and 1125): no check of the ride
SearchFire(t) ==
  /\ t \in timers
  /\ t.kind \in {"search", "search2"}
  /\ t.ride \in DOMAIN activeRides
  /\ LET drivers == IF t.kind = "search"
                    THEN availableDrivers(connectedClients, activeRides)
                    ELSE allDrivers(connectedClients)
     IN IF drivers = {}
        THEN /\ out' = One(ToSock("ride_request_error", t.sock, t.ride, "no drivers"))
                       (+) One(Notify(t.user, t.ride, "No Drivers Found"))
             /\ activeRides' = MapDel(activeRides, t.ride)
             /\ rideOrder' = SeqDel(rideOrder, t.ride)
             /\ timers' = timers \ {t}
        ELSE \E driverId \in drivers :
               /\ activeRides' = [activeRides EXCEPT ![t.ride] =
                                    [@ EXCEPT !.driverId = driverId,
                                              !.status = "driverAssigned"]]
               /\ out' = One(ToRoom("ride_assigned", driverId, t.ride, ""))
                         (+) One(Notify(driverId, t.ride, "New Ride Request"))
                         (+) One(ToRoom("driver_assigned", t.user, t.ride, driverId))
                         (+) One(Notify(t.user, t.ride, "Driver Found"))
               /\ timers' = (timers \ {t}) \cup
                              (IF t.kind = "search"
                               THEN {Timer("autoAccept", t.ride, t.sock, t.user,
                                           driverId)}
                               ELSE {})
               /\ UNCHANGED rideOrder
  /\ UNCHANGED <<now, rideCount, sockVars, connectedClients, driverLocations,
                 driverMovementHistory, race, evicted>>

\* the callback of the auto-accept timer (line 745): no check of the ride
AutoAcceptFire(t) ==
  /\ t \in timers
  /\ t.kind = "autoAccept"
  /\ t.ride \in DOMAIN activeRides
  /\ activeRides' = [activeRides EXCEPT ![t.ride] =
                       [@ EXCEPT !.status = "driverAccepted",
                                 !.acceptedTime = now]]
  /\ out' = One(ToRoom("driver_accepted", t.user, t.ride, t.driver))
            (+) One(Notify(t.user, t.ride, "Driver Accepted!"))
  /\ timers' = timers \ {t}
  /\ UNCHANGED <<now, rideCount, sockVars, connectedClients, driverLocations,
                 driverMovementHistory, rideOrder, race, evicted>>

NextAssign ==
  \/ \E s \in Sockets : \E u \in OwnedBy(s, Riders) :
       \E trip \in TripInputs, dist \in EstDistanceInputs, price \in EstPriceInputs :
         Inbound /\ rideCount < MaxRides /\ RequestAssign(s, u, trip, dist, price) /\ SocketOnly
  \/ \E t \in timers : SearchFire(t) /\ UNCHANGED events /\ SocketOnly
  \/ \E t \in timers : AutoAcceptFire(t) /\ UNCHANGED events /\ SocketOnly
  \/ \E s \in Sockets, r \in RideIdInputs :
       \E u \in OwnedBy(s, Users) \cup {NoId}, reason \in ReasonInputs :
         Inbound /\ CancelRide(s, r, u, reason) /\ SocketOnly
  \/ \E t \in timers :
       ~PendingFor(t.ride) /\ CleanupFire(t) /\ UNCHANGED events /\ SocketOnly

SpecAssign == Init /\ [][NextAssign]_vars

\* ------------------------------------------------------ NotificationBridge
\* createAndSendNotification(io, userId, data) is called without await by the
\* handlers.  It returns at once when userId is missing; otherwise it awaits
\* Notification.createNotification and, when that resolves, emits
\* 'notification' to the room of the user.  A rejection lands in the catch
\* block, which only logs.
NotifyCalls(bag) ==
  LET calls == {m \in BagToSet(bag) : m.ev = "notify" /\ m.room # NoId}
  IN [m \in calls |-> bag[m]]

\* the calls the handler that just ran has made
Call == /\ pendingNotes' = pendingNotes (+) NotifyCalls(out')
        /\ UNCHANGED notifications

\* Notification.createNotification resolves: the row exists, the emit follows
StoreWriteOk(n) ==
  /\ BagIn(n, pendingNotes)
  /\ pendingNotes' = pendingNotes (-) One(n)
  /\ notifications' = notifications (+) One(n)
  /\ out' = One(ToRoom("notification", n.room, n.ride, n.tag))
  /\ UNCHANGED <<now, rideCount, sockVars, connectedClients, driverLocations,
                 driverMovementHistory, activeRides, rideOrder, timers, race,
                 evicted>>

\* Notification.createNotification rejects: control jumps over the emit to
\* the catch block
StoreWriteFail(n) ==
  /\ BagIn(n, pendingNotes)
  /\ pendingNotes' = pendingNotes (-) One(n)
  /\ out' = EmptyBag
  /\ UNCHANGED <<now, rideCount, sockVars, connectedClients, driverLocations,
                 driverMovementHistory, activeRides, rideOrder, timers, race,
                 evicted, notifications>>

\* the ride transitions of a trip together with the bridge
NextBridge ==
  \/ \E s \in Sockets, r \in RideIdInputs : \E d \in OwnedBy(s, Drivers) :
       Inbound /\ DriverArrived(s, r, d) /\ Call /\ UNCHANGED restVars
  \/ \E s \in Sockets, r \in RideIdInputs : \E d \in OwnedBy(s, Drivers) :
       Inbound /\ StartRide(s, r, d) /\ Call /\ UNCHANGED restVars
  \/ \E s \in Sockets, r \in RideIdInputs : \E d \in OwnedBy(s, Drivers) :
       \E p \in ActualPriceInputs :
         Inbound /\ CompleteRide(s, r, d, p) /\ Call /\ UNCHANGED restVars
  \/ \E s \in Sockets, r \in RideIdInputs :
       \E u \in OwnedBy(s, Users) \cup {NoId}, reason \in ReasonInputs :
         Inbound /\ CancelRide(s, r, u, reason) /\ Call /\ UNCHANGED restVars
  \/ \E s \in Sockets : Inbound /\ Disconnect(s) /\ Call /\ UNCHANGED restVars
  \/ \E n \in BagToSet(pendingNotes) :
       StoreWriteOk(n) /\ UNCHANGED events /\ UNCHANGED restVars
  \/ \E n \in BagToSet(pendingNotes) :
       StoreWriteFail(n) /\ UNCHANGED events /\ UNCHANGED restVars
  \/ \E t \in timers : CleanupFire(t) /\ UNCHANGED events /\ SocketOnly

SpecBridge == TripInit /\ [][NextBridge]_vars

\* ----------------------------------------------------- REST driver endpoints
\* acceptRide, arriveAtPickup, startRide and completeRide of
\* message.controller.js work on the Ride document of the database.  Each
\* awaits Ride.findById, checks and changes its own copy of the document, and
\* awaits ride.save(), which writes the paths the request changed.  Requests
\* of different drivers interleave at the two awaits.
RestOps == {"accept", "arrive", "start", "complete"}

\* the status an endpoint requires and the status it sets
Requires(op) ==
  CASE op = "accept" -> {"searching", "driverAssigned"}
    [] op = "arrive" -> {"driverAccepted"}
    [] op = "start" -> {"driverArrived"}
    [] op = "complete" -> {"inProgress"}

Sets(op) ==
  CASE op = "accept" -> "driverAccepted"
    [] op = "arrive" -> "driverArrived"
    [] op = "start" -> "inProgress"
    [] op = "complete" -> "completed"

\* the response code of the checks an endpoint makes on the document it found
restVerdict(op, doc, driver) ==
  IF doc = NoDoc THEN 404
  ELSE IF op = "accept"
  THEN IF doc.status \notin Requires(op) THEN 400
       ELSE IF doc.driver # NoId /\ doc.driver # driver THEN 400
       ELSE 200
  ELSE IF doc.driver = NoId \/ doc.driver # driver THEN 403
  ELSE IF doc.status \notin Requires(op) THEN 400
  ELSE 200

\* the paths a request changes on its copy (NoId: ride.driver is not assigned)
restChanges(op, driver) ==
  [status |-> Sets(op), driver |-> IF op = "accept" THEN driver ELSE NoId]

\* the request arrives: the checks on req.user, then Ride.findById is awaited;
\* known tells whether :rideId names the document
RestBegin(d, op, active, known) ==
  /\ requests[d].pc = "idle"
  /\ requests' = [requests EXCEPT ![d] =
                    IF op = "accept" /\ ~active
                    THEN [op |-> op, pc |-> "idle", set |-> NoDoc, res |-> 400]
                    ELSE [op |-> op,
                          pc |-> IF known THEN "finding" ELSE "missing",
                          set |-> NoDoc, res |-> 0]]
  /\ UNCHANGED rideDoc

\* Ride.findById resolves: the checks, the assignments, then ride.save() is
\* awaited
RestFound(d) ==
  /\ requests[d].pc \in {"finding", "missing"}
  /\ LET q == requests[d]
         doc == IF q.pc = "finding" THEN rideDoc ELSE NoDoc
         code == restVerdict(q.op, doc, d)
     IN requests' = [requests EXCEPT ![d] =
                       IF code # 200
                       THEN [q EXCEPT !.pc = "idle", !.res = code]
                       ELSE [q EXCEPT !.pc = "saving",
                                      !.set = restChanges(q.op, d)]]
  /\ UNCHANGED rideDoc

\* ride.save() resolves: the changed paths are written, the response is 200
RestSaved(d) ==
  /\ requests[d].pc = "saving"
  /\ LET q == requests[d]
     IN /\ rideDoc' = [status |-> q.set.status,
                       driver |-> IF q.set.driver # NoId THEN q.set.driver
                                  ELSE rideDoc.driver]
        /\ requests' = [requests EXCEPT ![d] =
                          [q EXCEPT !.pc = "idle", !.set = NoDoc, !.res = 200]]

\* an awaited database call rejects: the catch block answers 500
RestFailed(d) ==
  /\ requests[d].pc \in {"finding", "missing", "saving"}
  /\ requests' = [requests EXCEPT ![d] =
                    [@ EXCEPT !.pc = "idle", !.set = NoDoc, !.res = 500]]
  /\ UNCHANGED rideDoc

\* the Ride document when the requests start: as requestRide saved it, or as
\* it is after d1 accepted it and confirmed the arrival
RestDocs == {[status |-> "searching", driver |-> NoId],
             [status |-> "driverArrived", driver |-> "d1"]}

RestInit ==
  /\ now = 0
  /\ sockOpen = Sockets
  /\ sockUser = [s \in Sockets |-> NoId]
  /\ sockRooms = [s \in Sockets |-> {}]
  /\ connectedClients = <<>>
  /\ driverLocations = <<>>
  /\ driverMovementHistory = <<>>
  /\ activeRides = <<>>
  /\ rideOrder = <<>>
  /\ timers = {}
  /\ out = EmptyBag
  /\ rideCount = 0
  /\ events = 0
  /\ race = [r \in RideIds |-> NoRace]
  /\ evicted = [r \in RideIds |-> "none"]
  /\ BridgeIdle
  /\ rideDoc \in RestDocs
  /\ requests = [d \in Drivers |-> NoRequest]

NextRest ==
  \/ \E d \in Drivers, op \in RestOps, active \in BOOLEAN, known \in BOOLEAN :
       Inbound /\ RestBegin(d, op, active, known) /\ UNCHANGED <<socketVars, bridgeVars>>
  \/ \E d \in Drivers :
       RestFound(d) /\ UNCHANGED <<events, socketVars, bridgeVars>>
  \/ \E d \in Drivers :
       RestSaved(d) /\ UNCHANGED <<events, socketVars, bridgeVars>>
  \/ \E d \in Drivers :
       RestFailed(d) /\ UNCHANGED <<events, socketVars, bridgeVars>>

SpecRest == RestInit /\ [][NextRest]_vars

\* ------------------------------------------------------------------ properties
Received(s, r) == Sent(ToSock("ride_request_received", s, r, ""))
Offered(d, r) == Sent(ToRoom("ride_assigned", d, r, ""))

\* the participants with kind = driver, connected = true and online = true
OnlineDrivers ==
  {d \in DOMAIN connectedClients :
     /\ connectedClients[d].userType = "driver"
     /\ connectedClients[d].connected
     /\ connectedClients[d].isOnline}

\* C1: in the accept race of a ride at most one driver_accept_ride succeeds
\* and the ride's driverId is that winner; no candidate is turned down while
\* the ride is still searching (so the first attempt wins); every other
\* candidate that attempted was sent ride_taken, and the winner was not.
C1_SingleWinner ==
  \A r \in RideIds :
    LET winners == race[r].winners
        losers == race[r].rejected \ winners
    IN /\ Cardinality(winners) <= 1
       /\ (r \in DOMAIN activeRides /\ winners # {})
            => activeRides[r].driverId \in winners
       /\ (r \in DOMAIN activeRides /\ activeRides[r].status = "searching")
            => race[r].rejected = {}
       /\ winners # {}
            => (losers \subseteq race[r].taken /\ winners \cap race[r].taken = {})

\* a race that had a winner and a losing candidate
C1_Witness ==
  \E r \in RideIds : race[r].winners # {} /\ race[r].rejected \ race[r].winners # {}

\* C2: a driver_accept_ride succeeds exactly when the ride is in the registry,
\* searching, and the driver is one of its candidates; it then sets driverId,
\* status driverAccepted and acceptedTime; in every other case the registry is
\* unchanged and the caller is sent ride_action_error.
C2_AcceptGuard ==
  [][\A s \in Sockets, r \in RideIds \cup {NoRide}, d \in Drivers :
       DriverAcceptRide(s, r, d) =>
         IF /\ r \in DOMAIN activeRides
            /\ activeRides[r].status = "searching"
            /\ d \in activeRides[r].potentialDrivers
         THEN /\ activeRides'[r].driverId = d
              /\ activeRides'[r].status = "driverAccepted"
              /\ activeRides'[r].acceptedTime = now
              /\ BagIn(ToSock("ride_action_success", s, r, "accepted"), out')
         ELSE /\ activeRides' = activeRides
              /\ \E m \in BagToSet(out') : m.ev = "ride_action_error" /\ m.sock = s
              /\ \A m \in BagToSet(out') : m.ev = "ride_action_error"]_vars

\* an accept has just succeeded
C2_Witness ==
  \E s \in Sockets, r \in DOMAIN activeRides :
    /\ Sent(ToSock("ride_action_success", s, r, "accepted"))
    /\ activeRides[r].status = "driverAccepted"

\* C3: right after a ride_request the candidates of the ride are exactly the
\* drivers that are connected and online, and ride_assigned went to exactly
\* those drivers.
C3_CandidatesAreOnlineDrivers ==
  \A s \in Sockets, r \in RideIds :
    Received(s, r) =>
      /\ r \in DOMAIN activeRides => activeRides[r].potentialDrivers = OnlineDrivers
      /\ \A d \in Drivers : Offered(d, r) <=> d \in OnlineDrivers

\* C4: right after a ride_request made while no driver is online, the rider
\* has ride_request_error, there is no timeout timer and no registry entry for
\* the ride, and no driver was sent an offer.
C4_NoDriverOnline ==
  \A s \in Sockets, r \in RideIds :
    (Received(s, r) /\ OnlineDrivers = {}) =>
      /\ Sent(ToSock("ride_request_error", s, r, "no drivers"))
      /\ r \notin DOMAIN activeRides
      /\ \A t \in timers : ~(t.kind = "timeout" /\ t.ride = r)
      /\ \A d \in Drivers : ~Offered(d, r)

\* C5: when a timeout timer fires for a ride that is still searching, the
\* ride leaves the registry with the status noDriverFound and its rider is
\* sent the failure (ride_request_error and a notification).
C5_TimeoutMarksNoDriverFound ==
  [][\A t \in timers :
       (/\ TimeoutFire(t)
        /\ t.ride \in DOMAIN activeRides
        /\ activeRides[t.ride].status = "searching")
       => /\ t.ride \notin DOMAIN activeRides'
          /\ evicted'[t.ride] = "noDriverFound"
          /\ BagIn(ToSock("ride_request_error", t.sock, t.ride, "timeout"), out')
          /\ BagIn(Notify(t.user, t.ride, "No Driver Response"), out')]_vars

\* C6: a timeout timer that fires when its ride is no longer searching (or
\* no longer in the registry) changes nothing but the timer itself and emits
\* nothing.
C6_LateTimeoutIsNoOp ==
  [][\A t \in timers :
       (/\ TimeoutFire(t)
        /\ ~(t.ride \in DOMAIN activeRides
             /\ activeRides[t.ride].status = "searching"))
       => /\ out' = EmptyBag
          /\ UNCHANGED <<activeRides, rideOrder, connectedClients,
                         driverLocations, driverMovementHistory, sockVars>>
          /\ timers' = timers \ {t}]_vars

\* the timeout timer of a ride that was accepted has fired and the ride is
\* still in the registry
C6_Witness ==
  \E r \in DOMAIN activeRides :
    /\ activeRides[r].status # "searching"
    /\ \A t \in timers : ~(t.kind = "timeout" /\ t.ride = r)

\* the active rides a driver holds
HeldRides(d) ==
  {r \in DOMAIN activeRides :
     activeRides[r].driverId = d /\ activeRides[r].status \in ActiveStatuses}

\* C7: a step in which the online flag of a driver goes from true to false
\* while the driver holds an active ride sends exactly one driver_offline,
\* to the rider of such a ride; every other step sends no driver_offline
\* about that driver.
C7_OfflineEdgeNotifies ==
  [][\A d \in Drivers :
       LET flips == /\ d \in DOMAIN connectedClients
                    /\ connectedClients[d].isOnline
                    /\ ~connectedClients'[d].isOnline
           about == {m \in BagToSet(out') : m.ev = "driver_offline" /\ m.tag = d}
       IN IF flips /\ HeldRides(d) # {}
          THEN \E r \in HeldRides(d) :
                 LET m == ToRoom("driver_offline", activeRides[r].userId, r, d)
                 IN about = {m} /\ CopiesIn(m, out') = 1
          ELSE about = {}]_vars

\* C8: a cancel_ride whose requester is neither the rider of the ride nor
\* its assigned driver leaves the ride and the timers unchanged and sends
\* the caller the two permission errors and nothing else.
C8_UnauthorizedCancelRejected ==
  [][\A s \in Sockets, r \in DOMAIN activeRides, u \in Users \cup {NoId},
        reason \in ReasonInputs :
       (/\ CancelRide(s, r, u, reason)
        /\ u # activeRides[r].userId
        /\ ~(activeRides[r].driverId # NoId /\ u = activeRides[r].driverId))
       => /\ activeRides' = activeRides
          /\ timers' = timers
          /\ BagIn(ToSock("ride_action_error", s, NoRide, "no permission"), out')
          /\ \A m \in BagToSet(out') :
               m.sock = s /\ m.ev \in {"ride_action_error", "ride_error"}]_vars

\* the place of a status in the chain; the terminal alternates come last
Rank(status) ==
  CASE status = "searching" -> 0
    [] status = "driverAssigned" -> 1
    [] status = "driverAccepted" -> 2
    [] status = "driverArrived" -> 3
    [] status = "inProgress" -> 4
    [] status = "completed" -> 5
    [] OTHER -> 6

\* C9: the status of a ride that stays in the registry never moves to an
\* earlier place of the chain searching, driverAccepted, driverArrived,
\* inProgress, completed (cancelled and noDriverFound count as last).
C9_StatusMonotonic ==
  [][\A r \in DOMAIN activeRides \cap DOMAIN activeRides' :
       rideCount' = rideCount
       => Rank(activeRides'[r].status) >= Rank(activeRides[r].status)]_vars

\* C10: a ride that is not cancelled has a driverId exactly when its status
\* is driverAccepted, driverArrived, inProgress or completed.
C10_DriverIdIffAccepted ==
  \A r \in DOMAIN activeRides :
    activeRides[r].status # "cancelled"
    => (activeRides[r].driverId # NoId
        <=> activeRides[r].status \in
              {"driverAccepted", "driverArrived", "inProgress", "completed"})

\* the distance a ride has accrued (an absent actualDistance counts as 0)
Travelled(ride) == IF ride.actualDistance = NoNum THEN 0 ELSE ride.actualDistance

\* C11 as stated: no step lowers the actualDistance of a ride.
C11_DistanceNeverDecreases ==
  [][\A r \in DOMAIN activeRides \cap DOMAIN activeRides' :
       Travelled(activeRides'[r]) >= Travelled(activeRides[r])]_vars

\* C11: the actualDistance of a ride is lowered by no step other than a
\* driver_arrived or a ride_started event for that ride, and these two set
\* it to 0.
C11_DistanceDecreasesOnlyByReset ==
  [][\A r \in DOMAIN activeRides \cap DOMAIN activeRides' :
       \/ Travelled(activeRides'[r]) >= Travelled(activeRides[r])
       \/ /\ activeRides'[r].actualDistance = 0
          /\ \E s \in Sockets, d \in Drivers :
               DriverArrived(s, r, d) \/ RideStarted(s, r, d)]_vars

\* a ride that accrued distance over location samples
C11_Witness ==
  \E r \in DOMAIN activeRides :
    activeRides[r].actualDistance > 0 /\ Len(activeRides[r].route) >= 2

\* C12: a ride with a non-empty route has status driverAccepted or a later
\* one (driverArrived, inProgress, completed, or cancelled after these); a
\* searching ride has an empty route.
C12_RouteOnlyAfterAccept ==
  \A r \in DOMAIN activeRides :
    /\ Len(activeRides[r].route) > 0
         => activeRides[r].status \in
              {"driverAccepted", "driverArrived", "inProgress", "completed",
               "cancelled"}
    /\ activeRides[r].status = "searching" => activeRides[r].route = <<>>

\* a ride whose route holds a recorded location
C12_Witness ==
  \E r \in DOMAIN activeRides :
    Len(activeRides[r].route) > 0 /\ activeRides[r].status = "driverAccepted"

\* C13: no movement trail ever holds more than 100 entries, and a location
\* sample recorded for a driver is appended to the driver's trail, the oldest
\* entry being dropped when the trail was full.
C13_TrailBoundedFifo ==
  /\ [](\A d \in DOMAIN driverMovementHistory :
          Len(driverMovementHistory[d]) <= 100)
  /\ [][\A s \in Sockets, d \in Drivers, l \in LocationInputs :
          (/\ DriverLocationUpdate(s, d, l) \/ UpdateLocation(s, d, l)
           /\ d \in DOMAIN driverMovementHistory
           /\ DriverActiveRides(activeRides, d) # {}
           /\ d \in DOMAIN connectedClients)
          => LET old == driverMovementHistory[d]
             IN driverMovementHistory'[d] =
                  IF Len(old) < 100 THEN Append(old, l)
                  ELSE Append(Tail(old), l)]_vars

\* a full trail whose oldest entry has been dropped
C13_Witness ==
  /\ "d1" \in DOMAIN driverMovementHistory
  /\ Len(driverMovementHistory["d1"]) = 100
  /\ driverMovementHistory["d1"][1] # 0

\* the last point of the trail of a driver is at most 10 m from a location
NearLast(d, l) ==
  /\ d \in DOMAIN driverMovementHistory
  /\ Len(driverMovementHistory[d]) > 0
  /\ Abs(driverMovementHistory[d][Len(driverMovementHistory[d])] - l) <= 10

\* C14: a location event of a driver whose location is at most 10 m (0.01 km)
\* from the previous point of the driver's trail changes the actualDistance
\* and the updatedFare of no ride.
C14_ShortSegmentKeepsFare ==
  [][\A s \in Sockets, d \in Drivers, l \in LocationInputs :
       (/\ DriverLocationUpdate(s, d, l) \/ UpdateLocation(s, d, l)
        /\ NearLast(d, l))
       => \A r \in DOMAIN activeRides :
            /\ activeRides'[r].actualDistance = activeRides[r].actualDistance
            /\ activeRides'[r].updatedFare = activeRides[r].updatedFare]_vars

\* a sample 10 m from the previous one has been recorded on the route of the
\* ride of d1
C14_Witness ==
  /\ "d1" \in DOMAIN driverMovementHistory
  /\ LET trail == driverMovementHistory["d1"]
     IN /\ Len(trail) >= 2
        /\ Abs(trail[Len(trail)] - trail[Len(trail) - 1]) = 10
        /\ \E r \in DOMAIN activeRides :
             /\ activeRides[r].driverId = "d1"
             /\ Len(activeRides[r].route) >= 2
             /\ activeRides[r].route[Len(activeRides[r].route)] = trail[Len(trail)]

\* C15: a driver_arrived event moves the ride to driverArrived when the ride
\* is driverAccepted and the sender is its assigned driver, and leaves the
\* status of the ride unchanged in every other case.
C15_ArriveGuard ==
  [][\A s \in Sockets, r \in DOMAIN activeRides, d \in Drivers :
       DriverArrived(s, r, d) =>
         activeRides'[r].status =
           IF activeRides[r].status = "driverAccepted"
              /\ activeRides[r].driverId = d
           THEN "driverArrived"
           ELSE activeRides[r].status]_vars

\* C16: a start_ride event moves the ride to inProgress when the ride is
\* driverArrived and the sender is its assigned driver, setting startTime,
\* reseeding the route and resetting actualDistance; in every other case the
\* ride is unchanged.
C16_StartGuard ==
  [][\A s \in Sockets, r \in DOMAIN activeRides, d \in Drivers :
       StartRide(s, r, d) =>
         IF activeRides[r].status = "driverArrived" /\ activeRides[r].driverId = d
         THEN /\ activeRides'[r].status = "inProgress"
              /\ activeRides'[r].startTime = now
              /\ activeRides'[r].actualDistance = 0
              /\ Len(activeRides'[r].route) <= 1
         ELSE activeRides'[r] = activeRides[r]]_vars

\* C17: a complete_ride event moves the ride to completed when the ride is
\* inProgress and the sender is its assigned driver; in every other case the
\* ride is unchanged.
C17_CompleteGuard ==
  [][\A s \in Sockets, r \in DOMAIN activeRides, d \in Drivers,
        p \in ActualPriceInputs :
       CompleteRide(s, r, d, p) =>
         IF activeRides[r].status = "inProgress" /\ activeRides[r].driverId = d
         THEN activeRides'[r].status = "completed"
         ELSE activeRides'[r] = activeRides[r]]_vars

\* the fare a completed ride ends with: finalFare, or the actualPrice when no
\* finalFare was computed
FinalFare(ride) == IF ride.finalFare # NoNum THEN ride.finalFare ELSE ride.actualPrice

\* C18: a step that completes a ride leaves it with the fare of its accrued
\* actualDistance when that is positive, and with the fare of its
\* estimatedDistance otherwise.
C18_FinalFareFromDistance ==
  [][\A r \in DOMAIN activeRides \cap DOMAIN activeRides' :
       (activeRides[r].status # "completed"
        /\ activeRides'[r].status = "completed")
       => FinalFare(activeRides'[r]) =
            (IF activeRides[r].actualDistance > 0
             THEN (activeRides[r].actualDistance * 20 + 500) \div 1000
             ELSE (activeRides[r].estimatedDistance * 20 + 500) \div 1000)]_vars

\* C19: a cancel_ride by the rider or the assigned driver of a ride that is
\* not in a terminal state cancels it and records cancelledBy and
\* cancellationReason; a ride that is completed, cancelled or noDriverFound
\* keeps its status in every step.
C19_CancelAndTerminal ==
  [][\A r \in DOMAIN activeRides \cap DOMAIN activeRides' :
       IF activeRides[r].status \in {"completed", "cancelled", "noDriverFound"}
       THEN activeRides'[r].status = activeRides[r].status
       ELSE \A s \in Sockets, u \in Users, reason \in ReasonInputs :
              (/\ CancelRide(s, r, u, reason)
               /\ u \in {activeRides[r].userId, activeRides[r].driverId})
              => /\ activeRides'[r].status = "cancelled"
                 /\ activeRides'[r].cancelledBy # NoId
                 /\ activeRides'[r].cancellationReason # ""]_vars

\* the rejection events
Rejections == {"ride_action_error", "ride_error", "ride_request_error"}

\* C20: a step that sends a rejection changes no ride, trail or timer and
\* sends nothing but rejections, all of them to the calling socket.
C20_RejectionIsLocal ==
  [][\A s \in Sockets :
       (\E m \in BagToSet(out') :
          m.ev \in {"ride_action_error", "ride_error"} /\ m.sock = s)
       => /\ activeRides' = activeRides
          /\ driverMovementHistory' = driverMovementHistory
          /\ timers' = timers
          /\ \A m \in BagToSet(out') : m.ev \in Rejections /\ m.sock = s]_vars

\* C21: a failed write to the notification store does not keep the
\* 'notification' message from being emitted to the recipient, a recipient
\* that cannot be reached does not keep the row from being written, and
\* neither outcome touches the rides: whenever a call of the bridge settles,
\* the message is emitted in that step; when the write succeeded the row is
\* there, whoever is connected; and the registry is as the handler left it.
C21_BridgePathsIndependent ==
  [][\A n \in BagToSet(pendingNotes) :
       /\ StoreWriteFail(n) =>
            /\ BagIn(ToRoom("notification", n.room, n.ride, n.tag), out')
            /\ activeRides' = activeRides
       /\ StoreWriteOk(n) =>
            /\ BagIn(n, notifications')
            /\ activeRides' = activeRides]_vars

\* the transition event that announces a status
EventOf(status) ==
  CASE status = "driverAccepted" -> "driver_accepted"
    [] status = "driverArrived" -> "driver_arrived"
    [] status = "inProgress" -> "ride_started"
    [] status = "completed" -> "ride_completed"
    [] status = "cancelled" -> "ride_cancelled"
    [] OTHER -> "none"

\* the copies of event ev about ride r that a bag of messages holds for user u
Emitted(bag, ev, u, r) ==
  LET S == {m \in BagToSet(bag) : m.ev = ev /\ m.room = u /\ m.ride = r}
  IN BagCardinality([m \in S |-> bag[m]])

\* C22: one inbound event never emits a transition event twice to the same
\* participant, and a step that moves a ride to a new status emits the event
\* of that status to the affected participant: the rider, or for a
\* cancellation by the rider the assigned driver.
C22_OneEventPerTransition ==
  /\ [](\A u \in Users, r \in RideIds :
         \A st \in ActiveStatuses \cup {"completed", "cancelled"} :
           Emitted(out, EventOf(st), u, r) <= 1)
  /\ [][\A r \in DOMAIN activeRides \cap DOMAIN activeRides' :
          LET before == activeRides[r]
              after == activeRides'[r]
              told == IF after.status = "cancelled" /\ after.cancelledBy = "rider"
                      THEN before.driverId ELSE before.userId
          IN (after.status # before.status /\ told # NoId) =>
               Emitted(out', EventOf(after.status), told, r) >= 1]_vars

\* C23: no step removes or empties the movement trail of a driver who is
\* connected, whatever happens to the rides: not a completion, not a
\* cancellation, not a clean-up timer.
C23_TrailOutlivesRide ==
  [][\A d \in DOMAIN driverMovementHistory :
       (d \in DOMAIN connectedClients /\ connectedClients[d].connected) =>
         /\ d \in DOMAIN driverMovementHistory'
         /\ driverMovementHistory[d] # <<>> => driverMovementHistory'[d] # <<>>]_vars

\* the reply of request_driver_movement carries samples of driver d
HistoryReturned(s, r, d) ==
  /\ RequestDriverMovement(s, r, d)
  /\ out' # EmptyBag
  /\ d \in DOMAIN driverMovementHistory
  /\ driverMovementHistory[d] # <<>>

\* C24: request_driver_movement returns samples of a driver only when the
\* caller is the rider of the named ride, the ride has an active status and
\* the driver named in the request is the driver of that ride.
C24_HistoryOnlyForOwnActiveRide ==
  [][\A s \in Sockets, r \in RideIds, d \in Drivers :
       HistoryReturned(s, r, d) =>
         /\ r \in DOMAIN activeRides
         /\ activeRides[r].userId = sockUser[s]
         /\ activeRides[r].status \in ActiveStatuses
         /\ activeRides[r].driverId = d]_vars

\* the stored location and the trail of a driver
LocationOf(locations, d) == IF d \in DOMAIN locations THEN locations[d] ELSE NoLoc
TrailIn(trails, d) == IF d \in DOMAIN trails THEN trails[d] ELSE <<>>

\* C25: the stored location and the trail of a driver change only while that
\* driver has an open connection authenticated as the driver, the one the
\* location event came in on.
C25_LocationWrittenByOwner ==
  [][\A d \in Drivers :
       (\/ LocationOf(driverLocations', d) # LocationOf(driverLocations, d)
        \/ TrailIn(driverMovementHistory', d) # TrailIn(driverMovementHistory, d))
       => \E s \in sockOpen : SocketOwner(s) = d /\ sockUser[s] = d]_vars

Max(a, b) == IF a >= b THEN a ELSE b

\* C26: every ride in the registry has estimatedPrice =
\* max(fare(estimatedDistance), MINIMUM_FARE), so none is below the minimum.
C26_EstimateAtLeastMinimum ==
  \A r \in DOMAIN activeRides :
    activeRides[r].estimatedPrice =
      Max(calculateFare(activeRides[r].estimatedDistance), MINIMUM_FARE)

\* C27: of the acceptRide requests of different drivers for one ride at most
\* one is answered 200, and the driver stored in the document is that one.
C27_RestAcceptSingleWinner ==
  LET winners == {d \in Drivers :
                    requests[d].op = "accept" /\ requests[d].res = 200}
  IN /\ Cardinality(winners) <= 1
     /\ \A d \in winners : rideDoc.driver = d

\* driver d has authenticated on a connection that is still open and is online
Ready(d) ==
  /\ d \in OnlineDrivers
  /\ \E s \in sockOpen : sockUser[s] = d /\ d \in sockRooms[s]

NoRequestError(bag) == \A m \in BagToSet(bag) : m.ev # "ride_request_error"

\* C28: a ride_request with pickup and dropoff, sent while a driver is
\* authenticated and online, creates the ride with that driver as a candidate
\* and emits ride_request_received to the caller and ride_assigned to the
\* driver; a driver_accept_ride of a candidate for the ride while it is still
\* searching emits driver_accepted to the rider and ride_action_success to
\* the driver; neither step, nor the timer of the ride once it is accepted,
\* emits ride_request_error.
C28_RequestThenAccept ==
  [][/\ \A s \in Sockets, u \in Riders, trip \in TripInputs, d \in Drivers :
          \A dist \in EstDistanceInputs, price \in EstPriceInputs :
            (/\ RideRequest(s, u, trip, dist, price)
             /\ trip[1] # NoLoc /\ trip[2] # NoLoc
             /\ Ready(d))
            => /\ BagIn(ToSock("ride_request_received", s, <<now, u>>, ""), out')
               /\ BagIn(ToRoom("ride_assigned", d, <<now, u>>, ""), out')
               /\ NoRequestError(out')
               /\ <<now, u>> \in DOMAIN activeRides'
               /\ d \in activeRides'[<<now, u>>].potentialDrivers
     /\ \A s \in Sockets, r \in RideIds, d \in Drivers :
          (/\ DriverAcceptRide(s, r, d)
           /\ r \in DOMAIN activeRides
           /\ activeRides[r].status = "searching"
           /\ d \in activeRides[r].potentialDrivers)
          => /\ BagIn(ToRoom("driver_accepted", activeRides[r].userId, r, d), out')
             /\ BagIn(ToSock("ride_action_success", s, r, "accepted"), out')
             /\ NoRequestError(out')
     /\ \A t \in timers :
          (/\ TimeoutFire(t)
           /\ race[t.ride].winners # {}
           /\ t.ride \in DOMAIN activeRides
           /\ activeRides[t.ride].status # "searching")
          => NoRequestError(out')]_vars

\* the rider is in its room, a driver that is authenticated and online was
\* offered the ride, and that driver's accept has just succeeded
C28_Witness ==
  \E s \in Sockets, r \in DOMAIN activeRides, d \in Drivers :
    /\ Ready(d)
    /\ sockUser[s] = d
    /\ race[r].winners = {d}
    /\ Sent(ToSock("ride_action_success", s, r, "accepted"))
    /\ Sent(ToRoom("driver_accepted", activeRides[r].userId, r, d))
    /\ \E su \in sockOpen : activeRides[r].userId \in sockRooms[su]

\* a ride that is in the registry as completed or cancelled
Terminal(r) ==
  r \in DOMAIN activeRides /\ activeRides[r].status \in {"completed", "cancelled"}

\* C29: a ride that is completed or cancelled leaves the registry only when a
\* clean-up timer runs, and with the timers running it does leave: no such
\* ride stays in the registry forever.
C29_TerminalRideEvicted ==
  /\ [][\A r \in RideIds :
          (Terminal(r) /\ r \notin DOMAIN activeRides')
          => \E t \in timers : t.ride = r /\ CleanupFire(t)]_vars
  /\ \A r \in RideIds : Terminal(r) ~> (r \notin DOMAIN activeRides)

\* C30: with the timers running, every ride in the registry leaves it at some
\* point, whether or not a participant sends anything more.
C30_NoRideStaysForever ==
  \A r \in RideIds : (r \in DOMAIN activeRides) ~> (r \notin DOMAIN activeRides)

\* the step stores a new searching ride under id r
Created(r) ==
  /\ r \in DOMAIN activeRides'
  /\ activeRides'[r].status = "searching"
  /\ \E s \in DOMAIN sockUser : BagIn(ToSock("ride_request_received", s, r, ""), out')

\* the step is an authenticate or a driver_status_update that names driver d
\* and comes from a connection of d
Reconnects(d) ==
  \E s \in sockOpen :
    /\ SocketOwner(s) = d
    /\ \/ Authenticate(s, d, "driver")
       \/ \E b \in BOOLEAN, l \in ReconnectLocInputs : DriverStatusUpdate(s, d, b, l)

\* C31: the disconnect of a connection leaves the participant it was
\* authenticated as with connected = false and, when that is a driver, with
\* isOnline = false; a ride_request never puts a driver whose connected flag
\* is false among the candidates of the ride it creates; and the flag of a
\* driver goes back to true only by an authenticate or driver_status_update
\* sent for that driver on one of the driver's connections.
C31_DisconnectedDriverNotCandidate ==
  [][ /\ \A s \in DOMAIN sockUser :
          (Disconnect(s) /\ sockUser[s] \in DOMAIN connectedClients) =>
            LET client == connectedClients'[sockUser[s]]
            IN /\ ~client.connected
               /\ (client.userType = "driver" => ~client.isOnline)
      /\ \A r \in RideIds : Created(r) =>
            \A d \in activeRides'[r].potentialDrivers :
              connectedClients[d].connected
      /\ \A d \in Drivers :
            (/\ d \in DOMAIN connectedClients
             /\ ~connectedClients[d].connected
             /\ connectedClients'[d].connected) => Reconnects(d) ]_vars

\* a ride_request has just offered a ride to the connected drivers and left
\* out a driver whose connection had dropped
C31_Witness ==
  \E r \in DOMAIN activeRides, d \in Drivers :
    /\ \E s \in DOMAIN sockUser : Sent(ToSock("ride_request_received", s, r, ""))
    /\ activeRides[r].potentialDrivers # {}
    /\ d \in DOMAIN connectedClients
    /\ ~connectedClients[d].connected
    /\ ~connectedClients[d].isOnline
    /\ d \notin activeRides[r].potentialDrivers
\* C32: an authenticate of a driver who already has an entry in
\* connectedClients stores the new connection and connected = true and
\* leaves the driver's isOnline flag, the location of the entry, the
\* driverLocations map and the entries of all other participants as they were.
C32_RegisterKeepsOnlineAndLocation ==
  [][ \A s \in DOMAIN sockUser, d \in Drivers :
        (Authenticate(s, d, "driver") /\ d \in DOMAIN connectedClients) =>
          /\ connectedClients'[d] =
               [connectedClients[d] EXCEPT !.socketId = s, !.connected = TRUE]
          /\ \A u \in DOMAIN connectedClients \ {d} :
               connectedClients'[u] = connectedClients[u]
          /\ driverLocations' = driverLocations ]_vars

\* a driver who is online with a known location has just authenticated on
\* the second connection
C32_Witness ==
  \E d \in DOMAIN connectedClients :
    /\ connectedClients[d].userType = "driver"
    /\ connectedClients[d].socketId # FirstSocket(d)
    /\ Sent(ToSock("authenticated", connectedClients[d].socketId, NoRide, d))
    /\ connectedClients[d].isOnline
    /\ connectedClients[d].location # NoLoc
    /\ d \in DOMAIN driverLocations
\* what a location sample l adds to a ride when the segment is measured from
\* the last point of the ride's route
RouteSegment(ride, l) ==
  IF Len(ride.route) > 0 THEN calculateDistance(Last(ride.route), l) ELSE 0

\* C33: a location event of a driver with an active ride adds to the ride's
\* actualDistance exactly the distance from the last point of the ride's
\* route to the sample when that distance is more than 10 m, and then
\* updatedFare is the fare of the new actualDistance; otherwise (a shorter
\* distance, or no point on the route yet) both stay as they were.
C33_AccruesFromRoutePoint ==
  [][ \A s \in Sockets, d \in Drivers, l \in LocationInputs :
        LET r == findDriverActiveRide(activeRides, rideOrder, d)
        IN (DriverLocationUpdate(s, d, l) /\ r # NoRide) =>
             LET ride == activeRides[r]
                 base == IF Truthy(ride.actualDistance)
                         THEN ride.actualDistance ELSE 0
                 seg == RouteSegment(ride, l)
             IN IF seg > SEGMENT_MIN
                THEN /\ activeRides'[r].actualDistance = base + seg
                     /\ activeRides'[r].updatedFare = calculateFare(base + seg)
                ELSE /\ activeRides'[r].actualDistance = ride.actualDistance
                     /\ activeRides'[r].updatedFare = ride.updatedFare ]_vars
\* C34: a driver_arrived event of the assigned driver for a ride that is
\* driverAccepted, sent while the location of the driver is known, leaves the
\* ride driverArrived with a route of exactly one point, that location, and
\* with actualDistance 0.
C34_ArriveReseedsRoute ==
  [][ \A s \in Sockets, r \in RideIds, d \in Drivers :
        (/\ DriverArrived(s, r, d)
         /\ r \in DOMAIN activeRides
         /\ activeRides[r].driverId = d
         /\ activeRides[r].status = "driverAccepted"
         /\ d \in DOMAIN driverLocations) =>
          /\ activeRides'[r].status = "driverArrived"
          /\ activeRides'[r].route = <<driverLocations[d]>>
          /\ activeRides'[r].actualDistance = 0 ]_vars
\* the number of ride_taken messages for ride r that the step emits to the
\* room of participant x
TakenTo(x, r) == CopiesIn(ToRoom("ride_taken", x, r, ""), out')

\* C35: a driver_accept_ride that succeeds emits ride_taken for the ride
\* once to the room of every candidate other than the accepting driver and
\* to no other room, and no connection of the accepting driver is in a room
\* it is emitted to; a driver_accept_ride that is rejected emits none.
C35_RideTakenToOtherCandidates ==
  [][ \A s \in Sockets, r \in RideIds \cup {NoRide}, d \in Drivers :
        DriverAcceptRide(s, r, d) =>
          IF acceptVerdict(activeRides, r, d) = "ok"
          THEN /\ \A x \in Users :
                    TakenTo(x, r) =
                      IF x \in activeRides[r].potentialDrivers /\ x # d
                      THEN 1 ELSE 0
               /\ \A c \in Sockets :
                    sockUser[c] = d => \A x \in sockRooms[c] : TakenTo(x, r) = 0
          ELSE \A x \in Users, q \in RideIds : TakenTo(x, q) = 0 ]_vars

\* a driver has just won a ride that another candidate was offered too, and
\* that candidate was sent ride_taken
C35_Witness ==
  \E r \in DOMAIN activeRides, s \in Sockets, x \in Drivers :
    /\ Sent(ToSock("ride_action_success", s, r, "accepted"))
    /\ x \in activeRides[r].potentialDrivers
    /\ x # activeRides[r].driverId
    /\ Sent(ToRoom("ride_taken", x, r, ""))
\* C36: a search timer or an auto-accept timer that fires for a ride that
\* was cancelled, or that is no longer in the registry, leaves the ride's
\* driverId and status as they were and does not put the ride back into the
\* registry.
C36_TimersRevalidate ==
  [][ \A t \in timers :
        LET r == t.ride
        IN ((SearchFire(t) \/ AutoAcceptFire(t))
            /\ (r \notin DOMAIN activeRides
                \/ activeRides[r].status = "cancelled")) =>
             /\ r \notin DOMAIN activeRides => r \notin DOMAIN activeRides'
             /\ r \in DOMAIN activeRides /\ r \in DOMAIN activeRides' =>
                  /\ activeRides'[r].status = activeRides[r].status
                  /\ activeRides'[r].driverId = activeRides[r].driverId ]_vars
\* C37: no driver is the driverId of two rides of the registry whose status
\* is driverAccepted, driverArrived or inProgress.
C37_OneActiveRidePerDriver ==
  \A d \in Drivers : Cardinality(DriverActiveRides(activeRides, d)) <= 1
\* C38: the disconnect of a connection that is not the current connection
\* of the participant it was authenticated as (the participant has signed in
\* on another connection since) leaves the entry of the participant, and so
\* its connected and isOnline flags, as it was.
C38_StaleDisconnectIgnored ==
  [][ \A s \in DOMAIN sockUser :
        (/\ Disconnect(s)
         /\ sockUser[s] \in DOMAIN connectedClients
         /\ connectedClients[sockUser[s]].socketId # s
         /\ connectedClients[sockUser[s]].connected) =>
          connectedClients'[sockUser[s]] = connectedClients[sockUser[s]] ]_vars
\* C39: a ride_request is never answered with the id of a ride that is in
\* the registry already: the id of the ride it stores is new, so it replaces
\* no entry of the registry and no pending timer of another ride refers to
\* it.
C39_FreshRideId ==
  [][ \A r \in RideIds :
        (\E s \in Sockets : BagIn(ToSock("ride_request_received", s, r, ""), out')) =>
          /\ r \notin DOMAIN activeRides
          /\ \A t \in timers : t.ride # r ]_vars
\* the driver of the event may move ride r: the driver is the ride's driverId
MayAct(r, d) == r \in DOMAIN activeRides /\ activeRides[r].driverId = d

\* the driver of the event may accept ride r: the driver is the ride's
\* driverId, or the ride is searching and the driver is one of its candidates
MayAccept(r, d) ==
  \/ MayAct(r, d)
  \/ /\ r \in DOMAIN activeRides
     /\ activeRides[r].status = "searching"
     /\ d \in activeRides[r].potentialDrivers

\* C40: a driver_accepted, ride_started or ride_completed event for a ride of
\* the registry whose driverId is not the driver of the event (for
\* driver_accepted: and the driver is not a candidate of the ride while it is
\* searching) changes no ride, starts no timer and emits nothing.
C40_EchoEventsGuarded ==
  [][ \A s \in Sockets, r \in RideIds, d \in Drivers :
        (/\ r \in DOMAIN activeRides
         /\ \/ DriverAccepted(s, r, d) /\ ~MayAccept(r, d)
            \/ RideStarted(s, r, d) /\ ~MayAct(r, d)
            \/ RideCompleted(s, r, d) /\ ~MayAct(r, d)) =>
          /\ activeRides' = activeRides
          /\ timers' = timers
          /\ out' = EmptyBag ]_vars
====
